---- MODULE Spec2Model ----
(***************************************************************************)
(* pre-post: GIF/screenshot capture (src/video.ts, src/browser.ts), the    *)
(* CLI flag validation in front of it (src/bin/cli.ts) and the git-native  *)
(* staging of the finished artifact (src/upload.ts).                       *)
(*                                                                         *)
(* JavaScript numbers are modelled as non-negative integers plus two       *)
(* sentinels: NaN (the result of parseFloat/parseInt on an unparsable      *)
(* string) and Undefined (an option that was not given).  Durations are    *)
(* held in hundredths of a second, so duration x fps is d * fps / 100.     *)
(***************************************************************************)
EXTENDS Integers, Sequences, FiniteSets, TLC

\* ------------------------------------------------------------------ bounds
NumStills == 2     \* distinct page contents the renderer can show
MaxChanges == 1    \* times the page content changes during one capture

\* --------------------------------------------------------- program values
NaN == -1
Undefined == -2
MaxFileSize == 10485760
DefaultDuration == 200
DefaultFps == 8
DefaultFpsVideo == 10
CliDefaultDuration == 300
CliDefaultFps == 5
CliMaxDuration == 1000
CliMaxFps == 10
MaxColors == 256
DefaultGifScale == 50    \* gifScale ?? 0.5, in hundredths

\* the invocations of captureVideo / captureScreenshot: the CLI's capture,
\* or a pair of library calls that may be in flight together
Inv == 1..2
Stills == 1..NumStills
\* the two images uploadBeforeAfter is given
Sides == {"before", "after"}
\* upload URLs, by what uploadImage looks for in them; NoUrl: not given
NoUrl == [name |-> "", has0x0 |-> FALSE, hasVercel |-> FALSE]
DefaultUploadUrl == [name |-> "https://0x0.st", has0x0 |-> TRUE, hasVercel |-> FALSE]
UploadUrls ==
    { DefaultUploadUrl,
      [name |-> "https://blob.vercel-storage.com", has0x0 |-> FALSE, hasVercel |-> TRUE],
      [name |-> "https://s3.example.com/bucket", has0x0 |-> FALSE, hasVercel |-> FALSE],
      [name |-> "https://0x0.st/blob.vercel", has0x0 |-> TRUE, hasVercel |-> TRUE] }
\* a response body of 0x0.st: a URL or an error text, possibly with
\* whitespace around it; id tells the uploads apart
NoOut == [ws |-> FALSE, text |-> "", id |-> ""]
Bodies(side) == [ws : BOOLEAN, text : {"http-url", "error"}, id : {side}]
\* a response to a PUT: response.ok, a JSON content type, the body's url
\* field ("" = empty or absent, "invalid" = the body does not parse) and a
\* location header
Responses == [ok : BOOLEAN, isJson : BOOLEAN, jsonUrl : {"json-url", "", "invalid"},
              location : BOOLEAN]
NoResp == [ok |-> FALSE, isJson |-> FALSE, jsonUrl |-> "", location |-> FALSE]
NoUpload == [st |-> "none", method |-> "none", resp |-> NoResp, out |-> NoOut,
             error |-> ""]
\* the trimmed output of `git rev-parse HEAD`: its length and whether it is
\* made of the characters 0-9a-f only
\* launchBrowser() was not called yet
NoLaunch == [env |-> [customPath |-> FALSE, customOk |-> FALSE, ok |-> << >>],
             tried |-> << >>, launched |-> -1, error |-> ""]
NoSha == [len |-> 0, hex |-> TRUE]
RevParseOutputs == [len : {0, 4, 7, 39, 40, 41}, hex : BOOLEAN]
\* the visibility of the repository on GitHub
Visibilities == {"public", "private", "internal", "unknown"}
\* the viewport presets of the --mobile flag and of the default
mobile == [width |-> 375, height |-> 812]
desktop == [width |-> 1280, height |-> 800]

\* ------------------------------------------------- JavaScript arithmetic
\* a ?? d
Nullish(a, d) == IF a = Undefined THEN d ELSE a
\* comparisons: any comparison with NaN is false
Lt(a, b) == a # NaN /\ b # NaN /\ a < b
Le(a, b) == a # NaN /\ b # NaN /\ a <= b
Gt(a, b) == a # NaN /\ b # NaN /\ a > b
\* Math.ceil(duration * fps), duration in hundredths of a second
CeilMul(d, f) == IF d = NaN \/ f = NaN THEN NaN ELSE (d * f + 99) \div 100
\* Math.round(n / f) for n >= 0, f > 0 (round half up)
RoundDiv(n, f) == IF f = NaN THEN NaN ELSE (2 * n + f) \div (2 * f)
\* duration * 1000: milliseconds of a duration in hundredths of a second
Seconds(d) == IF d = NaN THEN NaN ELSE d * 10

\* ------------------------------------------------------ pixels and gifenc
\* The decoded pixels of still s at the GIF resolution (three pixels, one
\* 8-bit channel each).
Pixels(s) == << (s % 2) * 255, ((s + 1) % 2) * 255, ((s \div 2) * 16) % 256 >>
\* rgba4444 bucket of a colour
Bucket(c) == c \div 16
RECURSIVE SortedSeq(_)
SortedSeq(S) ==
    IF S = {} THEN << >>
    ELSE LET m == CHOOSE x \in S : \A y \in S : x <= y
         IN << m >> \o SortedSeq(S \ {m})
\* quantize(rgba, 256, {format: 'rgba4444'}): one entry per occupied bucket,
\* at most maxColors of them
quantize(rgba, maxColors) ==
    LET reps == { CHOOSE c \in { rgba[p] : p \in DOMAIN rgba } :
                      Bucket(c) = b /\ \A q \in DOMAIN rgba :
                          Bucket(rgba[q]) = b => c <= rgba[q]
                  : b \in { Bucket(rgba[p]) : p \in DOMAIN rgba } }
        all == SortedSeq(reps)
    IN IF Len(all) <= maxColors THEN all ELSE SubSeq(all, 1, maxColors)
\* distance of two colours
Dist(a, b) == IF a >= b THEN a - b ELSE b - a
\* applyPalette with 1-based indices
applyPalette_OneBased(rgba, palette) ==
    [ p \in DOMAIN rgba |->
        CHOOSE k \in DOMAIN palette :
            \A j \in DOMAIN palette :
                \/ Dist(rgba[p], palette[k]) < Dist(rgba[p], palette[j])
                \/ (Dist(rgba[p], palette[k]) = Dist(rgba[p], palette[j]) /\ k <= j) ]

\* applyPalette(rgba, palette, 'rgba4444'): index (0-based) of the nearest
\* palette entry, lowest index on ties
applyPalette(rgba, palette) ==
    [ p \in DOMAIN rgba |->
        (CHOOSE k \in DOMAIN palette :
            \A j \in DOMAIN palette :
                \/ Dist(rgba[p], palette[k]) < Dist(rgba[p], palette[j])
                \/ (Dist(rgba[p], palette[k]) = Dist(rgba[p], palette[j]) /\ k <= j)) - 1 ]

\* ------------------------------------------------------------------ state
VARIABLES
    caller,          \* "cli": bin/cli.ts main(); "lib", "batch": calls of the exports
    flags,           \* parsed command-line values
    cliPc,           \* position of main()
    ffmpegInstalled, \* whether `which ffmpeg` succeeds on this machine
    ffmpegAvailable, \* video.ts module cache: "null", "true", "false"
    browser,         \* browser.ts module variable (0 = null)
    browsers,        \* every browser ever launched: [by, open]
    lastLaunch,      \* the latest launchBrowser() call: [env, tried, launched, error]
    sharedPage,      \* browser.ts module variable `page` (0 = null)
    decoderPage,     \* video.ts module variable (0 = null)
    decoderBrowser,  \* video.ts module variable (0 = null)
    pages,           \* every page ever created: [kind, by, open, dsf]
    pc,              \* per invocation: position
    ret,             \* per invocation: where getBrowser returns to
    kind,            \* per invocation: "video" or "screenshot"
    opts,            \* per invocation: [duration, fps, selector]
    br,              \* per invocation: the Browser handle it holds
    capPage,         \* per invocation: the page it captures on
    pg,              \* per invocation: the decoder page handle it holds
    ctx,             \* per invocation: recordVideo context "none"/"open"/"closed"
    tmp,             \* per invocation: temp dir "none"/"present"/"removed"
    frames,          \* per invocation: captured stills, in order
    shots,           \* per invocation: page.screenshot calls made
    recWaited,       \* per invocation: the recording wait was started
    changes,         \* per invocation: content changes seen so far
    selCount,        \* per invocation: locator.count() result (-1 = not asked)
    timeouts,        \* per invocation: the page.waitForTimeout(ms) calls, in order
    written,         \* per invocation: frames given to encoder.writeFrame
    finished,        \* per invocation: encoder.finish() was called
    result,          \* per invocation: the VideoResult / Buffer returned
    err,             \* per invocation: the error thrown ("" = none)
    prePost,         \* the files written to .pre-post/: [kind, len]
    cdp,             \* closeDecoderPage(): "idle" or "closing"
    cb,              \* closeBrowser(): "idle", or awaiting "page" / "browser" .close()
    cbCalls,         \* closeBrowser() calls that have returned
    navStatus,       \* per invocation: status of page.goto's response (0 = none)
    stderr,          \* what console.error / console.warn printed: [level, text]
    ub,              \* position of uploadBeforeAfter()
    uploadUrl,       \* the uploadUrl argument (NoUrl = not given)
    visibility,      \* what GitHub reports as the repository's visibility
    prBody,          \* the body of the branch's pull request on GitHub
    prExists,        \* whether `gh pr view` finds a pull request
    sc,              \* position of upload-and-copy.sh --markdown
    runs,            \* upload-and-copy.sh --markdown runs started
    SECTION,         \* upload-and-copy.sh: the markdown section of this run
    PR_BODY,         \* upload-and-copy.sh: the body read by `gh pr view`
    NEW_BODY,        \* upload-and-copy.sh: the body given to `gh pr edit`
    git,             \* the git commands execSync has completed, in order
    sha,             \* what `git rev-parse HEAD` printed, trimmed
    native,          \* per side: what uploadGitNative returned
    urls,            \* the URLs uploadBeforeAfter returned: [side, via, url]
    ubErr,           \* the error uploadBeforeAfter threw ("" = none)
    http,            \* per side: the uploadImage call [st, method, resp, out, error]
    fetches,         \* the fetch calls issued, in order
    settled          \* the sides whose uploadImage call has settled, in order

cbVars == << cb, cbCalls >>
modVars == << ffmpegAvailable, browser, browsers, lastLaunch, sharedPage, decoderPage,
              decoderBrowser, pages >>
envVars == << caller, flags, ffmpegInstalled >>
invVars == << pc, ret, kind, opts, br, capPage, pg, ctx, tmp, frames, shots,
              recWaited, changes, selCount, timeouts, written, finished, result,
              err >>
upVars == << ub, uploadUrl, visibility, git, sha, native, urls, ubErr, http,
            fetches, settled >>
prVars == << prBody, prExists, sc, runs, SECTION, PR_BODY, NEW_BODY >>
vars == << envVars, prVars, cliPc, cdp, cbVars, modVars, invVars, prePost, navStatus, stderr,
          upVars >>

\* a returned VideoResult: gifLen and gifFrames describe the bytes in `gif`
\* (length, number of frames); frameCount and duration are the fields
NoResult == [ok |-> FALSE, gifLen |-> 0, gifFrames |-> 0, frameCount |-> 0,
             duration |-> 0]

\* ----------------------------------------------------------------- inputs
\* what --duration / --fps parse to (hundredths of a second; frames/second)
CliDurations == {Undefined, NaN, 0, 5, 50, 100, 1500}
CliFps == {Undefined, NaN, 0, 5, 20}
\* what --delay parses to (milliseconds)
CliDelays == {Undefined, 500}
\* process.argv[2]: one of the three subcommands, or anything else
\* ("default")
CliSubcommands == {"default", "compare", "run", "detect"}
\* what a caller of the exported captureVideo passes: one call at a time
\* ("lib"), or several calls in flight together ("batch")
LibDurations == {0, 1}
LibFps == {5, 250}
BatchDurations == {1}
BatchFps == {5}
\* "e2e": one captureVideo call with duration 1 and fps 5 against a renderer
\* that shows a different still at every screenshot
E2EDurations == {100}
E2EFps == {5}
E2EStills == 1..5
CallDurations == IF caller = "lib" THEN LibDurations
                 ELSE IF caller = "e2e" THEN E2EDurations ELSE BatchDurations
CallFps == IF caller = "lib" THEN LibFps
           ELSE IF caller = "e2e" THEN E2EFps ELSE BatchFps
CallSelectors == IF caller = "lib" THEN BOOLEAN ELSE {FALSE}
CallViewports == IF caller = "lib" THEN {mobile, desktop} ELSE {desktop}
\* "lib" and "e2e" make their calls through invocation 1; "batch" uses
\* every invocation
\* "reuse" makes one call, closes the browser, and makes a second call
MayCall(i) ==
    \/ caller \in {"lib", "e2e", "launch"} /\ i = 1
    \/ caller = "batch"
    \/ caller = "reuse" /\ cb = "idle" /\ cdp = "idle"
          /\ (i = 1 \/ (pc[1] \in {"done", "staged"} /\ cbCalls >= 1))
\* the status of the response page.goto resolves with
NavStatuses == IF caller \in {"cli", "lib"} THEN {200, 404} ELSE {200}
\* byte lengths encoder.bytes() / the FFmpeg output can have; a GIF without
\* frames is the stream's trailer alone
GifSizes == {1024, MaxFileSize, MaxFileSize + 1}
BytesOf(fs) == IF fs = << >> THEN {1} ELSE GifSizes

\* ------------------------------------------- text of a pull request body
\* A body is a sequence of pieces: the marker text, a newline, the '---'
\* rule, the section a run built, or any other text.
marker == "## Visual Changes"
NL == "\n"
Rule == "---"
MaxBodyLen == 3
MaxRuns == 2
\* SECTION="### Screenshots ($SHORT_SHA - $TIMESTAMP) ... table": one piece
\* per run
Section(k) == "### Screenshots (run " \o ToString(k) \o ")"
Sections == { Section(k) : k \in 1..(MaxRuns + 1) }
\* the bodies a pull request has before the first run: every text of at
\* most MaxBodyLen pieces, with and without the marker, at any place
PrBodies == UNION { [1..n -> {"text", NL, marker}] : n \in 0..MaxBodyLen }

Init ==
    /\ caller \in {"cli", "lib", "batch", "e2e", "upload", "launch", "reuse", "pr"}
    /\ flags \in [video : BOOLEAN, full : BOOLEAN, duration : CliDurations,
                  fps : CliFps, selector : BOOLEAN, mobile : BOOLEAN,
                  help : BOOLEAN, subcommand : CliSubcommands, args : BOOLEAN,
                  delay : CliDelays]
    /\ caller # "cli" =>
          flags = [video |-> FALSE, full |-> FALSE, duration |-> Undefined,
                   fps |-> Undefined, selector |-> FALSE, mobile |-> FALSE,
                   help |-> FALSE, subcommand |-> "default", args |-> TRUE,
                   delay |-> Undefined]
    \* the video options vary in full on the default subcommand with its
    \* two positionals; --help, the subcommands and a missing argument are
    \* driven with --duration 0.5 alone
    /\ (flags.help \/ flags.subcommand # "default" \/ ~flags.args) =>
          /\ flags.duration = 50 /\ flags.fps = Undefined
          /\ ~flags.selector /\ ~flags.mobile /\ flags.delay = Undefined
    \* --delay is driven with --duration 0.5 on the default subcommand
    /\ flags.delay # Undefined =>
          /\ flags.duration = 50 /\ flags.fps = Undefined /\ ~flags.mobile
    /\ cliPc = IF caller = "cli" THEN "main" ELSE "off"
    /\ ffmpegInstalled \in BOOLEAN
    /\ caller \in {"upload", "launch", "reuse", "pr"} => ~ffmpegInstalled
    /\ ffmpegAvailable = "null"
    /\ browser = 0
    /\ browsers = << >>
    /\ lastLaunch = NoLaunch
    /\ sharedPage = 0
    /\ decoderPage = 0
    /\ decoderBrowser = 0
    /\ pages = << >>
    /\ pc = [i \in Inv |-> "idle"]
    /\ ret = [i \in Inv |-> "none"]
    /\ kind = [i \in Inv |-> "none"]
    /\ opts = [i \in Inv |-> [duration |-> Undefined, fps |-> Undefined,
                              selector |-> FALSE, viewport |-> desktop,
                              delay |-> Undefined]]
    /\ br = [i \in Inv |-> 0]
    /\ capPage = [i \in Inv |-> 0]
    /\ pg = [i \in Inv |-> 0]
    /\ ctx = [i \in Inv |-> "none"]
    /\ tmp = [i \in Inv |-> "none"]
    /\ frames = [i \in Inv |-> << >>]
    /\ shots = [i \in Inv |-> 0]
    /\ recWaited = [i \in Inv |-> FALSE]
    /\ changes = [i \in Inv |-> 0]
    /\ selCount = [i \in Inv |-> -1]
    /\ timeouts = [i \in Inv |-> << >>]
    /\ written = [i \in Inv |-> << >>]
    /\ finished = [i \in Inv |-> FALSE]
    /\ result = [i \in Inv |-> NoResult]
    /\ err = [i \in Inv |-> ""]
    /\ prePost = {}
    /\ cdp = "idle"
    /\ cb = "idle"
    /\ cbCalls = 0
    /\ navStatus = [i \in Inv |-> 0]
    /\ stderr = {}
    /\ ub = IF caller = "upload" THEN "idle" ELSE "off"
    /\ uploadUrl = NoUrl
    /\ visibility \in Visibilities
    /\ caller # "upload" => visibility = "unknown"
    /\ git = << >>
    /\ sha = NoSha
    /\ native = [side \in Sides |-> [filename |-> "", ownerRepo |-> ""]]
    /\ urls = {}
    /\ ubErr = ""
    /\ http = [side \in Sides |-> NoUpload]
    /\ fetches = << >>
    /\ settled = << >>
    /\ prBody \in IF caller = "pr" THEN PrBodies ELSE {<< >>}
    /\ prExists \in IF caller = "pr" THEN BOOLEAN ELSE {FALSE}
    /\ sc = IF caller = "pr" THEN "idle" ELSE "off"
    /\ runs = 0
    /\ SECTION = ""
    /\ PR_BODY = << >>
    /\ NEW_BODY = << >>

\* ------------------------------------------------------------ bin/cli.ts
\* isSubcommand = ['detect', 'compare', 'run'].includes(subcommand)
isSubcommand(f) == f.subcommand \in {"detect", "compare", "run"}

\* validateVideoFlags() without the --full test
validateVideoFlags_NoFullCheck(f) ==
    IF ~f.video THEN TRUE
    ELSE LET duration == Nullish(f.duration, CliDefaultDuration)
             fps == Nullish(f.fps, CliDefaultFps)
         IN /\ ~(Le(duration, 0) \/ Gt(duration, CliMaxDuration))
            /\ ~(Lt(fps, 1) \/ Gt(fps, CliMaxFps))

\* validateVideoFlags(): TRUE when it returns, FALSE when it calls
\* process.exit(1)
validateVideoFlags(f) ==
    IF ~f.video THEN TRUE
    ELSE IF f.full THEN FALSE
    ELSE LET duration == Nullish(f.duration, CliDefaultDuration)
             fps == Nullish(f.fps, CliDefaultFps)
         IN /\ ~(Le(duration, 0) \/ Gt(duration, CliMaxDuration))
            /\ ~(Lt(fps, 1) \/ Gt(fps, CliMaxFps))

\* validateVideoFlags(): what it passes to console.error before
\* process.exit(1)
validateVideoFlags_error(f) ==
    IF f.full THEN "--full (fullPage) is not supported with --video"
    ELSE LET duration == Nullish(f.duration, CliDefaultDuration)
         IN IF Le(duration, 0) \/ Gt(duration, CliMaxDuration)
            THEN "Duration must be between 0.1 and 10 seconds"
            ELSE "FPS must be between 1 and 10"

\* resolveViewportFlag() + resolveViewport()
resolveViewport(f) == IF f.mobile THEN mobile ELSE desktop

\* runCompare / runFull / runDefault up to the try block: the message of
\* the console.error before process.exit(1) when --before-base/--after-base
\* (compare, run) or the two positionals (default) are missing
missingArgs_error(f) ==
    IF f.subcommand = "compare"
    THEN "Both --before-base and --after-base are required for compare."
    ELSE IF f.subcommand = "run"
    THEN "Both --before-base and --after-base are required for run."
    ELSE "Two arguments required (URLs or image paths). Run with --help for usage."

\* main(): --help without a subcommand prints the usage and returns;
\* otherwise validateVideoFlags(), then the subcommand: detect prints the
\* routes and returns, compare / run / default check their arguments and
\* start the capture
main ==
    /\ cliPc = "main"
    /\ IF flags.help /\ ~isSubcommand(flags)
       THEN /\ cliPc' = "exit0"
            /\ UNCHANGED << kind, opts, pc, ret, stderr >>
       ELSE IF ~validateVideoFlags(flags)
       THEN /\ cliPc' = "exit1"
            /\ stderr' = stderr \cup {[level |-> "error",
                                        text |-> validateVideoFlags_error(flags)]}
            /\ UNCHANGED << kind, opts, pc, ret >>
       ELSE IF flags.subcommand = "detect"
       THEN /\ cliPc' = "exit0"
            /\ UNCHANGED << kind, opts, pc, ret, stderr >>
       ELSE IF ~flags.args
       THEN /\ cliPc' = "exit1"
            /\ stderr' = stderr \cup {[level |-> "error",
                                        text |-> missingArgs_error(flags)]}
            /\ UNCHANGED << kind, opts, pc, ret >>
       ELSE /\ cliPc' = "capture"
            /\ kind' = [kind EXCEPT ![1] = IF flags.video THEN "video" ELSE "screenshot"]
            /\ opts' = [opts EXCEPT ![1] = [duration |-> flags.duration,
                                            fps |-> flags.fps,
                                            selector |-> flags.selector,
                                            viewport |-> resolveViewport(flags),
                                            delay |-> IF flags.video THEN flags.delay
                                                      ELSE Undefined]]
            /\ pc' = [pc EXCEPT ![1] = "gb_check"]
            /\ ret' = [ret EXCEPT ![1] = IF flags.video THEN "cv_hasFfmpeg" ELSE "cs_page"]
            /\ UNCHANGED stderr
    /\ UNCHANGED << envVars, prVars, cdp, cbVars, modVars, br, capPage, pg, ctx, tmp, frames, shots,
                    recWaited, changes, selCount, timeouts, written, finished, result,
                    err, prePost, navStatus, upVars >>

\* main().catch calling process.exit(1) while the finally block of the
\* subcommand is still to run
exit_BeforeFinally ==
    /\ \/ cliPc = "settled"
       \/ cliPc = "capture" /\ err[1] # ""
    /\ pc[1] \in {"done", "staged"}
    /\ cliPc' = IF err[1] = "" THEN "exit0" ELSE "exit1"
    /\ UNCHANGED << envVars, prVars, cdp, cbVars, modVars, invVars, prePost, navStatus, stderr, upVars >>

\* main().then / .catch: the process exits once runDefault / runCompare has
\* settled, that is after its `finally { await closeBrowser(); }`
exit ==
    /\ cliPc = "settled"
    /\ pc[1] \in {"done", "staged"}
    /\ cliPc' = IF err[1] = "" THEN "exit0" ELSE "exit1"
    /\ UNCHANGED << envVars, prVars, cdp, cbVars, modVars, invVars, prePost, navStatus, stderr, upVars >>

\* ---------------------------------------------------- calls of the exports
call_captureVideo(i) ==
    /\ MayCall(i)
    /\ pc[i] = "idle"
    /\ \E d \in CallDurations, f \in CallFps, s \in CallSelectors,
          v \in CallViewports :
          opts' = [opts EXCEPT ![i] = [duration |-> d, fps |-> f, selector |-> s,
                                       viewport |-> v, delay |-> Undefined]]
    /\ kind' = [kind EXCEPT ![i] = "video"]
    /\ pc' = [pc EXCEPT ![i] = "gb_check"]
    /\ ret' = [ret EXCEPT ![i] = "cv_hasFfmpeg"]
    /\ UNCHANGED << envVars, prVars, cliPc, cdp, cbVars, modVars, br, capPage, pg, ctx, tmp, frames,
                    shots, recWaited, changes, selCount, timeouts, written, finished,
                    result, err, prePost, navStatus, stderr, upVars >>

call_captureScreenshot(i) ==
    /\ MayCall(i)
    /\ caller # "e2e"
    /\ pc[i] = "idle"
    /\ \E s \in CallSelectors, v \in CallViewports :
          opts' = [opts EXCEPT ![i] = [duration |-> Undefined, fps |-> Undefined,
                                       selector |-> s, viewport |-> v,
                                       delay |-> Undefined]]
    /\ kind' = [kind EXCEPT ![i] = "screenshot"]
    /\ pc' = [pc EXCEPT ![i] = "gb_check"]
    /\ ret' = [ret EXCEPT ![i] = "cs_page"]
    /\ UNCHANGED << envVars, prVars, cliPc, cdp, cbVars, modVars, br, capPage, pg, ctx, tmp, frames,
                    shots, recWaited, changes, selCount, timeouts, written, finished,
                    result, err, prePost, navStatus, stderr, upVars >>

\* ------------------------------------------------------------ helpers
\* the variables of one invocation that most steps leave alone
handles == << br, capPage, pg, ctx, tmp >>
capture == << frames, shots, recWaited, changes, selCount, timeouts >>
encoder == << written, finished >>

\* a page: who created it, with which deviceScaleFactor and viewport
\* height (Undefined: no viewport option given), and of which browser
NewPage(k, i, d, h, b) == [kind |-> k, by |-> i, open |-> TRUE, dsf |-> d,
                           height |-> h, of |-> b]
ClosePage(ps, p) == IF p \in DOMAIN ps THEN [ps EXCEPT ![p].open = FALSE] ELSE ps
IsOpen(p) == p \in DOMAIN pages /\ pages[p].open

\* where a throw of the step at `at` lands: inside captureVideo's try block
\* the finally runs first; everywhere else the call rejects at once
ThrowTarget(at) == IF at \in {"dp_getDecoderPage"} THEN "cv_finally" ELSE "done"

\* ------------------------------------------------------ browser.ts
\* getBrowser(), and the same test at the head of getPage(): `if (!browser)`
getBrowser(i) ==
    /\ pc[i] = "gb_check"
    /\ IF browser = 0
       THEN /\ pc' = [pc EXCEPT ![i] = "gb_launch"]
            /\ UNCHANGED br
       ELSE /\ br' = [br EXCEPT ![i] = browser]
            /\ pc' = [pc EXCEPT ![i] = ret[i]]
    /\ UNCHANGED << envVars, prVars, cliPc, cdp, cbVars, modVars, ret, kind, opts, capPage, pg, ctx,
                    tmp, capture, encoder, result, err, prePost, navStatus, stderr, upVars >>

\* findCachedChromium() finds at most MaxCached builds
MaxCached == 2
\* The machine as launchBrowser sees it: whether
\* PLAYWRIGHT_CHROMIUM_EXECUTABLE_PATH is set and chromium.launch succeeds
\* with it, and for each strategy of the auto-detection, in the order of
\* the `strategies` array (1 System Chrome, 2 bundled Chromium, 2 + k the
\* k-th cached build), whether chromium.launch succeeds.
AllLaunchEnvs ==
    UNION { [customPath : BOOLEAN, customOk : BOOLEAN,
             ok : [1..(2 + c) -> BOOLEAN]] : c \in 0..MaxCached }
LaunchEnvs ==
    IF caller = "launch"
    THEN { e \in AllLaunchEnvs : ~e.customPath => ~e.customOk }
    ELSE { e \in AllLaunchEnvs :
              /\ ~e.customPath /\ ~e.customOk /\ Len(e.ok) = 2
              /\ e.ok[1] = e.ok[2] }

\* launchBrowser: `for (const { options } of strategies) { try { return
\* await chromium.launch(options) } catch {} }` from strategy k on: the
\* strategies tried, in order
RECURSIVE tryStrategies(_, _)
tryStrategies(ok, k) ==
    IF k > Len(ok) THEN << >>
    ELSE IF ok[k] THEN << k >>
    ELSE << k >> \o tryStrategies(ok, k + 1)

\* launchBrowser falling back to the auto-detection when the custom path
\* fails
launchOutcome_CustomFallsBack(env) ==
    LET t == tryStrategies(env.ok, 1)
        hit == t # << >> /\ env.ok[t[Len(t)]]
    IN IF env.customPath /\ env.customOk
       THEN [tried |-> << 0 >>, launched |-> 0, error |-> ""]
       ELSE [tried |-> (IF env.customPath THEN << 0 >> ELSE << >>) \o t,
             launched |-> IF hit THEN t[Len(t)] ELSE -1,
             error |-> IF hit THEN "" ELSE "No usable Chromium found"]

\* launchBrowser(): the strategies tried (0 = the custom path), the one that
\* launched (-1 = none) and the message of the Error thrown
launchOutcome(env) ==
    IF env.customPath
    THEN [tried |-> << 0 >>,
          launched |-> IF env.customOk THEN 0 ELSE -1,
          error |-> IF env.customOk THEN ""
                    ELSE "Failed to launch Chromium at custom path"]
    ELSE LET t == tryStrategies(env.ok, 1)
             hit == t # << >> /\ env.ok[t[Len(t)]]
         IN [tried |-> t,
             launched |-> IF hit THEN t[Len(t)] ELSE -1,
             error |-> IF hit THEN "" ELSE "No usable Chromium found"]

\* `browser = await launchBrowser()` resolves, or launchBrowser throws
launchBrowser(i) ==
    /\ pc[i] = "gb_launch"
    /\ \E env \in LaunchEnvs :
          LET r == launchOutcome(env)
          IN /\ lastLaunch' = [env |-> env, tried |-> r.tried,
                               launched |-> r.launched, error |-> r.error]
             /\ IF r.launched # -1
                THEN /\ browsers' = Append(browsers, [by |-> i, open |-> TRUE])
                     /\ browser' = Len(browsers) + 1
                     /\ br' = [br EXCEPT ![i] = Len(browsers) + 1]
                     /\ pc' = [pc EXCEPT ![i] = ret[i]]
                     /\ UNCHANGED err
                ELSE /\ err' = [err EXCEPT ![i] = r.error]
                     /\ pc' = [pc EXCEPT ![i] = ThrowTarget(ret[i])]
                     /\ UNCHANGED << browsers, browser, br >>
    /\ UNCHANGED << envVars, prVars, cliPc, cdp, cbVars, ffmpegAvailable, sharedPage, decoderPage,
                    decoderBrowser, pages, ret, kind, opts, capPage, pg, ctx,
                    tmp, capture, encoder, result, prePost, navStatus, stderr, upVars >>

\* browser.close(): the browser and every page of it are closed
CloseBrowserPages(ps, b) ==
    [p \in DOMAIN ps |-> IF ps[p].of = b THEN [ps[p] EXCEPT !.open = FALSE]
                         ELSE ps[p]]

\* the CLI calls closeBrowser() in the finally block of runDefault /
\* runCompare, when the captures and the upload have settled; "batch" calls
\* it once as cleanup, "reuse" between and after its captures
MaxCloses == 2
MayClose ==
    \/ caller = "cli" /\ cliPc = "capture" /\ pc[1] \in {"done", "staged"}
    \/ caller = "batch" /\ cbCalls = 0 /\ \A i \in Inv : pc[i] \in {"done", "staged"}
    \/ caller = "reuse" /\ cbCalls < MaxCloses /\ pc[1] \in {"done", "staged"}
          /\ pc[2] \in {"idle", "done", "staged"}

\* closeBrowser() from `if (browser)` on: browser.close() is awaited, or
\* the function returns (to the CLI's finally block, which then settles)
closeBrowser_ifBrowser(ps) ==
    IF browser # 0
    THEN /\ browsers' = [browsers EXCEPT ![browser].open = FALSE]
         /\ pages' = CloseBrowserPages(ps, browser)
         /\ cb' = "browser"
         /\ cliPc' = IF caller = "cli" THEN "finally" ELSE cliPc
         /\ UNCHANGED cbCalls
    ELSE /\ pages' = ps
         /\ cb' = "idle"
         /\ cbCalls' = cbCalls + 1
         /\ cliPc' = IF caller = "cli" THEN "settled" ELSE cliPc
         /\ UNCHANGED browsers

\* closeBrowser(): `if (page) { await page.close(); ...`, else the browser
\* test
closeBrowser ==
    /\ MayClose
    /\ cb = "idle" /\ cdp = "idle"
    /\ IF sharedPage # 0
       THEN /\ pages' = ClosePage(pages, sharedPage)
            /\ cb' = "page"
            /\ cliPc' = IF caller = "cli" THEN "finally" ELSE cliPc
            /\ UNCHANGED << browsers, cbCalls >>
       ELSE closeBrowser_ifBrowser(pages)
    /\ UNCHANGED << envVars, prVars, cdp, ffmpegAvailable, browser, lastLaunch, sharedPage,
                    decoderPage, decoderBrowser, invVars, prePost, navStatus,
                    stderr, upVars >>

\* closeBrowser(): page.close() has resolved: `page = null; }`, then the
\* browser test
closeBrowser_page ==
    /\ cb = "page"
    /\ sharedPage' = 0
    /\ closeBrowser_ifBrowser(pages)
    /\ UNCHANGED << envVars, prVars, cdp, ffmpegAvailable, browser, lastLaunch,
                    decoderPage, decoderBrowser, invVars, prePost, navStatus,
                    stderr, upVars >>

\* closeBrowser(): browser.close() has resolved: `browser = null; }` and
\* the function returns
closeBrowser_browser ==
    /\ cb = "browser"
    /\ browser' = 0
    /\ cb' = "idle"
    /\ cbCalls' = cbCalls + 1
    /\ cliPc' = IF caller = "cli" THEN "settled" ELSE cliPc
    /\ UNCHANGED << envVars, prVars, cdp, ffmpegAvailable, browsers, lastLaunch, sharedPage,
                    decoderPage, decoderBrowser, pages, invVars, prePost,
                    navStatus, stderr, upVars >>

\* ------------------------------------------------------ video.ts
\* hasFfmpeg(): the cached answer, or `which ffmpeg`
hasFfmpeg == IF ffmpegAvailable # "null" THEN ffmpegAvailable = "true"
             ELSE ffmpegInstalled

\* captureGif: totalFrames = Math.ceil(duration * fps)
totalFrames(o) == CeilMul(Nullish(o.duration, DefaultDuration),
                          Nullish(o.fps, DefaultFps))
\* captureGif: frameDelay = Math.round(1000 / fps)
frameDelay(o) == RoundDiv(1000, Nullish(o.fps, DefaultFps))
\* encodeGif: delay = Math.round(1000 / options.fps / 10)
delay(o) == RoundDiv(100, Nullish(o.fps, DefaultFps))
\* encodeGif: gifWidth / gifHeight = Math.round(viewport.* x options.scale)
gifWidth(o) == RoundDiv(o.viewport.width * DefaultGifScale, 100)
gifHeight(o) == RoundDiv(o.viewport.height * DefaultGifScale, 100)

\* captureGif's loop test `i < totalFrames` with i = frames.length
LoopHead(i, n) == IF Lt(n, totalFrames(opts[i])) THEN "cg_shot" ELSE "eg_loop"

\* captureVideo after getBrowser(): hasFfmpeg() selects the path; the FFmpeg
\* path starts with mkdtempSync
captureVideo(i) ==
    /\ pc[i] = "cv_hasFfmpeg"
    /\ ffmpegAvailable' = IF hasFfmpeg THEN "true" ELSE "false"
    /\ IF hasFfmpeg
       THEN /\ pc' = [pc EXCEPT ![i] = "gv_newContext"]
            /\ tmp' = [tmp EXCEPT ![i] = "present"]
       ELSE /\ pc' = [pc EXCEPT ![i] = "cv_newPage"]
            /\ UNCHANGED tmp
    /\ UNCHANGED << envVars, prVars, cliPc, cdp, cbVars, browser, browsers, lastLaunch, sharedPage, decoderPage,
                    decoderBrowser, pages, ret, kind, opts, br, capPage, pg, ctx,
                    capture, encoder, result, err, prePost, navStatus, stderr, upVars >>

\* captureVideo: browser.newPage({viewport, deviceScaleFactor: 2})
captureVideo_newPage(i) ==
    /\ pc[i] = "cv_newPage"
    /\ pages' = Append(pages, NewPage("capture", i, 2, opts[i].viewport.height, br[i]))
    /\ capPage' = [capPage EXCEPT ![i] = Len(pages) + 1]
    /\ pc' = [pc EXCEPT ![i] = "cg_goto"]
    /\ UNCHANGED << envVars, prVars, cliPc, cdp, cbVars, ffmpegAvailable, browser, browsers, lastLaunch, sharedPage,
                    decoderPage, decoderBrowser, ret, kind, opts, br, pg, ctx, tmp,
                    capture, encoder, result, err, prePost, navStatus, stderr, upVars >>

\* captureGif: page.goto + document.fonts.ready
captureGif_goto(i) ==
    /\ pc[i] = "cg_goto"
    /\ \/ /\ \E st \in NavStatuses : navStatus' = [navStatus EXCEPT ![i] = st]
          /\ pc' = [pc EXCEPT ![i] = IF opts[i].selector THEN "cg_count"
                                     ELSE LoopHead(i, 0)]
          /\ UNCHANGED err
       \/ /\ err' = [err EXCEPT ![i] = "navigation failed"]
          /\ pc' = [pc EXCEPT ![i] = "cv_finally"]
          /\ UNCHANGED navStatus
    /\ UNCHANGED << envVars, prVars, cliPc, cdp, cbVars, modVars, ret, kind, opts, handles, capture,
                    encoder, result, prePost, stderr, upVars >>

\* captureGif_count without the throw on zero matches
captureGif_count_NoThrow(i) ==
    /\ pc[i] = "cg_count"
    /\ \E c \in {0, 1} :
          /\ selCount' = [selCount EXCEPT ![i] = c]
          /\ pc' = [pc EXCEPT ![i] = "cg_scroll"]
    /\ UNCHANGED << envVars, prVars, cliPc, cdp, cbVars, modVars, ret, kind, opts, handles, frames,
                    shots, recWaited, changes, timeouts, encoder, result, err, prePost, navStatus, stderr, upVars >>

\* captureGif: locator.count(); zero matches throws
captureGif_count(i) ==
    /\ pc[i] = "cg_count"
    /\ \E c \in {0, 1} :
          /\ selCount' = [selCount EXCEPT ![i] = c]
          /\ IF c = 0
             THEN /\ err' = [err EXCEPT ![i] = "Element not found"]
                  /\ pc' = [pc EXCEPT ![i] = "cv_finally"]
             ELSE /\ pc' = [pc EXCEPT ![i] = "cg_scroll"]
                  /\ UNCHANGED err
    /\ UNCHANGED << envVars, prVars, cliPc, cdp, cbVars, modVars, ret, kind, opts, handles, frames,
                    shots, recWaited, changes, timeouts, encoder, result, prePost, navStatus, stderr, upVars >>

\* captureGif: scrollIntoViewIfNeeded + waitForTimeout(100)
captureGif_scroll(i) ==
    /\ pc[i] = "cg_scroll"
    /\ timeouts' = [timeouts EXCEPT ![i] = Append(@, 100)]
    /\ pc' = [pc EXCEPT ![i] = LoopHead(i, 0)]
    /\ UNCHANGED << envVars, prVars, cliPc, cdp, cbVars, modVars, ret, kind, opts, handles, frames,
                    shots, recWaited, changes, selCount,
                    encoder, result, err, prePost, navStatus, stderr, upVars >>

\* what the page can show at the next screenshot
Rendered(i) ==
    IF caller = "e2e"
    THEN { s \in E2EStills : \A k \in DOMAIN frames[i] : frames[i][k] # s }
    ELSE Stills

\* captureGif loop body handing every still to the encoder as soon as it is
\* captured
captureGif_screenshot_Streaming(i) ==
    /\ pc[i] = "cg_shot"
    /\ \/ \E s \in Rendered(i) :
            LET changed == frames[i] # << >> /\ frames[i][Len(frames[i])] # s
            IN /\ (changed /\ caller # "e2e") => changes[i] < MaxChanges
               /\ changes' = [changes EXCEPT ![i] = IF changed THEN @ + 1 ELSE @]
               /\ shots' = [shots EXCEPT ![i] = @ + 1]
               /\ frames' = [frames EXCEPT ![i] = Append(@, s)]
               /\ pc' = [pc EXCEPT ![i] = "eg_loop"]
               /\ UNCHANGED err
       \/ /\ shots' = [shots EXCEPT ![i] = @ + 1]
          /\ err' = [err EXCEPT ![i] = "screenshot failed"]
          /\ pc' = [pc EXCEPT ![i] = "cv_finally"]
          /\ UNCHANGED << frames, changes >>
    /\ UNCHANGED << envVars, prVars, cliPc, cdp, cbVars, modVars, ret, kind, opts, handles, recWaited,
                    selCount, timeouts, encoder, result, prePost, navStatus, stderr, upVars >>

\* captureGif loop body putting the new still in front of the earlier ones
captureGif_screenshot_Prepend(i) ==
    /\ pc[i] = "cg_shot"
    /\ \/ \E s \in Rendered(i) :
            LET changed == frames[i] # << >> /\ frames[i][Len(frames[i])] # s
            IN /\ (changed /\ caller # "e2e") => changes[i] < MaxChanges
               /\ changes' = [changes EXCEPT ![i] = IF changed THEN @ + 1 ELSE @]
               /\ shots' = [shots EXCEPT ![i] = @ + 1]
               /\ frames' = [frames EXCEPT ![i] = << s >> \o @]
               /\ pc' = [pc EXCEPT ![i] =
                           IF Lt(Len(frames[i]), totalFrames(opts[i]) - 1)
                           THEN "cg_wait" ELSE "eg_loop"]
               /\ UNCHANGED err
       \/ /\ shots' = [shots EXCEPT ![i] = @ + 1]
          /\ err' = [err EXCEPT ![i] = "screenshot failed"]
          /\ pc' = [pc EXCEPT ![i] = "cv_finally"]
          /\ UNCHANGED << frames, changes >>
    /\ UNCHANGED << envVars, prVars, cliPc, cdp, cbVars, modVars, ret, kind, opts, handles, recWaited,
                    selCount, timeouts, encoder, result, prePost, navStatus, stderr, upVars >>

\* captureGif loop body: page.screenshot() resolves with the page's current
\* content and the still is pushed; `if (i < totalFrames - 1)` waits
captureGif_screenshot(i) ==
    /\ pc[i] = "cg_shot"
    /\ \/ \E s \in Rendered(i) :
            LET changed == frames[i] # << >> /\ frames[i][Len(frames[i])] # s
            IN /\ (changed /\ caller # "e2e") => changes[i] < MaxChanges
               /\ changes' = [changes EXCEPT ![i] = IF changed THEN @ + 1 ELSE @]
               /\ shots' = [shots EXCEPT ![i] = @ + 1]
               /\ frames' = [frames EXCEPT ![i] = Append(@, s)]
               /\ pc' = [pc EXCEPT ![i] =
                           IF Lt(Len(frames[i]), totalFrames(opts[i]) - 1)
                           THEN "cg_wait" ELSE "eg_loop"]
               /\ UNCHANGED err
       \/ /\ shots' = [shots EXCEPT ![i] = @ + 1]
          /\ err' = [err EXCEPT ![i] = "screenshot failed"]
          /\ pc' = [pc EXCEPT ![i] = "cv_finally"]
          /\ UNCHANGED << frames, changes >>
    /\ UNCHANGED << envVars, prVars, cliPc, cdp, cbVars, modVars, ret, kind, opts, handles, recWaited,
                    selCount, timeouts, encoder, result, prePost, navStatus, stderr, upVars >>

\* captureGif loop: page.waitForTimeout(frameDelay), then the loop test
captureGif_wait(i) ==
    /\ pc[i] = "cg_wait"
    /\ timeouts' = [timeouts EXCEPT ![i] = Append(@, frameDelay(opts[i]))]
    /\ pc' = [pc EXCEPT ![i] = LoopHead(i, Len(frames[i]))]
    /\ UNCHANGED << envVars, prVars, cliPc, cdp, cbVars, modVars, ret, kind, opts, handles, frames,
                    shots, recWaited, changes, selCount,
                    encoder, result, err, prePost, navStatus, stderr, upVars >>

\* writeFrame with the first frame's delay left at zero
writeFrame_FirstDelayZero(o, s, k) ==
    LET rgba == Pixels(s)
        palette == quantize(rgba, MaxColors)
    IN [index |-> applyPalette(rgba, palette), palette |-> palette,
        width |-> gifWidth(o), height |-> gifHeight(o),
        delay |-> IF k = 0 THEN 0 ELSE delay(o), repeat |-> 0,
        dispose |-> IF k = 0 THEN -1 ELSE 0]

\* writeFrame without the repeat option
writeFrame_PlayOnce(o, s, k) ==
    LET rgba == Pixels(s)
        palette == quantize(rgba, MaxColors)
    IN [index |-> applyPalette(rgba, palette), palette |-> palette,
        width |-> gifWidth(o), height |-> gifHeight(o),
        delay |-> delay(o), repeat |-> -1, dispose |-> IF k = 0 THEN -1 ELSE 0]

\* encodeGif: the frame written for still s as the k-th frame (k from 0):
\* decode, quantize, applyPalette, encoder.writeFrame(indexed, w, h,
\* {palette, delay, repeat: 0, dispose: k === 0 ? -1 : 0})
writeFrame(o, s, k) ==
    LET rgba == Pixels(s)
        palette == quantize(rgba, MaxColors)
    IN [index |-> applyPalette(rgba, palette), palette |-> palette,
        width |-> gifWidth(o), height |-> gifHeight(o),
        delay |-> delay(o), repeat |-> 0, dispose |-> IF k = 0 THEN -1 ELSE 0]

\* encodeGif loop test `i < frames.length`: the next frame enters
\* decodePngToRgba (which first awaits getBrowser()); after the last one
\* encoder.finish() and encoder.bytes() run and captureGif returns its
\* VideoResult
encodeGif(i) ==
    /\ pc[i] = "eg_loop"
    /\ IF Len(written[i]) < Len(frames[i])
       THEN /\ pc' = [pc EXCEPT ![i] = "gb_check"]
            /\ ret' = [ret EXCEPT ![i] = "dp_getDecoderPage"]
            /\ UNCHANGED << finished, result >>
       ELSE /\ finished' = [finished EXCEPT ![i] = TRUE]
            /\ \E n \in BytesOf(frames[i]) :
                  result' = [result EXCEPT ![i] =
                      [ok |-> TRUE, gifLen |-> n,
                       gifFrames |-> Len(written[i]),
                       frameCount |-> Len(frames[i]),
                       duration |-> Nullish(opts[i].duration, DefaultDuration)]]
            /\ pc' = [pc EXCEPT ![i] = "cv_finally"]
            /\ UNCHANGED ret
    /\ UNCHANGED << envVars, prVars, cliPc, cdp, cbVars, modVars, kind, opts, handles, capture,
                    written, err, prePost, navStatus, stderr, upVars >>

\* getDecoderPage: reuse the module's decoder page when it is open, else
\* remember the browser and ask it for a new page
getDecoderPage(i) ==
    /\ pc[i] = "dp_getDecoderPage"
    /\ IF decoderPage # 0 /\ IsOpen(decoderPage)
       THEN /\ pg' = [pg EXCEPT ![i] = decoderPage]
            /\ pc' = [pc EXCEPT ![i] = "dp_evaluate"]
            /\ UNCHANGED decoderBrowser
       ELSE /\ decoderBrowser' = br[i]
            /\ pc' = [pc EXCEPT ![i] = "dp_newPage"]
            /\ UNCHANGED pg
    /\ UNCHANGED << envVars, prVars, cliPc, cdp, cbVars, ffmpegAvailable, browser, browsers, lastLaunch, sharedPage,
                    decoderPage, pages, ret, kind, opts, br, capPage, ctx, tmp,
                    capture, encoder, result, err, prePost, navStatus, stderr, upVars >>

\* getDecoderPage: `decoderPage = await browser.newPage()` resolves and
\* setContent is called on the new page
getDecoderPage_newPage(i) ==
    /\ pc[i] = "dp_newPage"
    /\ pages' = Append(pages, NewPage("decoder", i, 1, Undefined, br[i]))
    /\ decoderPage' = Len(pages) + 1
    /\ pc' = [pc EXCEPT ![i] = "dp_setContent"]
    /\ UNCHANGED << envVars, prVars, cliPc, cdp, cbVars, ffmpegAvailable, browser, browsers, lastLaunch, sharedPage,
                    decoderBrowser, ret, kind, opts, handles, capture, encoder,
                    result, err, prePost, navStatus, stderr, upVars >>

\* getDecoderPage: setContent resolves; `return decoderPage` reads the
\* module variable as it is now
getDecoderPage_return(i) ==
    /\ pc[i] = "dp_setContent"
    /\ pg' = [pg EXCEPT ![i] = decoderPage]
    /\ pc' = [pc EXCEPT ![i] = "dp_evaluate"]
    /\ UNCHANGED << envVars, prVars, cliPc, cdp, cbVars, modVars, ret, kind, opts, br, capPage, ctx,
                    tmp, capture, encoder, result, err, prePost, navStatus, stderr, upVars >>

\* decodePngToRgba where a failed frame ends the clip at the frames decoded
\* so far
decodePngToRgba_PartialClip(i) ==
    /\ pc[i] = "dp_evaluate"
    /\ \/ /\ IsOpen(pg[i])
          /\ written' = [written EXCEPT ![i] =
                Append(@, writeFrame(opts[i], frames[i][Len(@) + 1], Len(@)))]
          /\ pc' = [pc EXCEPT ![i] = "eg_loop"]
          /\ UNCHANGED << err, frames >>
       \/ /\ err' = [err EXCEPT ![i] = "decode failed"]
          /\ frames' = [frames EXCEPT ![i] = SubSeq(@, 1, Len(written[i]))]
          /\ pc' = [pc EXCEPT ![i] = "eg_loop"]
          /\ UNCHANGED written
    /\ UNCHANGED << envVars, prVars, cliPc, cdp, cbVars, modVars, ret, kind, opts, handles, shots,
                    recWaited, changes, selCount, timeouts, finished, result, prePost,
                    navStatus, stderr, upVars >>

\* decodePngToRgba: pg.evaluate(...) resolves with the pixels and encodeGif
\* writes the frame; it rejects when the page is gone or the image fails
decodePngToRgba(i) ==
    /\ pc[i] = "dp_evaluate"
    /\ \/ /\ IsOpen(pg[i])
          /\ written' = [written EXCEPT ![i] =
                Append(@, writeFrame(opts[i], frames[i][Len(@) + 1], Len(@)))]
          /\ pc' = [pc EXCEPT ![i] = "eg_loop"]
          /\ UNCHANGED err
       \/ /\ err' = [err EXCEPT ![i] = "decode failed"]
          /\ pc' = [pc EXCEPT ![i] = "cv_finally"]
          /\ UNCHANGED written
    /\ UNCHANGED << envVars, prVars, cliPc, cdp, cbVars, modVars, ret, kind, opts, handles, capture,
                    finished, result, prePost, navStatus, stderr, upVars >>

\* captureVideo: `finally { await page.close(); }`
captureVideo_finally(i) ==
    /\ pc[i] = "cv_finally"
    /\ pages' = ClosePage(pages, capPage[i])
    /\ pc' = [pc EXCEPT ![i] = "done"]
    /\ UNCHANGED << envVars, prVars, cliPc, cdp, cbVars, ffmpegAvailable, browser, browsers, lastLaunch, sharedPage,
                    decoderPage, decoderBrowser, ret, kind, opts, handles, capture,
                    encoder, result, err, prePost, navStatus, stderr, upVars >>

\* closeDecoderPage(): `if (decoderPage && !decoderPage.isClosed())
\* { await decoderPage.close(); ...`; "lib" calls it at any time, "batch"
\* as cleanup once its captures have settled, "reuse" between captures
closeDecoderPage ==
    /\ \/ caller = "lib"
       \/ caller = "batch" /\ \A i \in Inv : pc[i] \in {"done", "staged"}
       \/ caller = "reuse" /\ \A i \in Inv : pc[i] \in {"idle", "done", "staged"}
    /\ cdp = "idle" /\ cb = "idle"
    /\ decoderPage # 0 /\ IsOpen(decoderPage)
    /\ pages' = ClosePage(pages, decoderPage)
    /\ cdp' = "closing"
    /\ UNCHANGED << envVars, prVars, cliPc, cbVars, ffmpegAvailable, browser, browsers, lastLaunch, sharedPage,
                    decoderPage, decoderBrowser, invVars, prePost, navStatus, stderr, upVars >>

\* closeDecoderPage(): close() has resolved: `decoderPage = null; }`
closeDecoderPage_null ==
    /\ cdp = "closing"
    /\ decoderPage' = 0
    /\ cdp' = "idle"
    /\ UNCHANGED << envVars, prVars, cliPc, cbVars, ffmpegAvailable, browser, browsers, lastLaunch, sharedPage,
                    decoderBrowser, pages, invVars, prePost, navStatus, stderr, upVars >>

\* ------------------------------------- video.ts: recordVideo + FFmpeg path
\* captureGifWithVideo: browser.newContext({deviceScaleFactor: 1,
\* recordVideo}) and context.newPage()
captureGifWithVideo(i) ==
    /\ pc[i] = "gv_newContext"
    /\ ctx' = [ctx EXCEPT ![i] = "open"]
    /\ pages' = Append(pages, NewPage("capture", i, 1, opts[i].viewport.height, br[i]))
    /\ capPage' = [capPage EXCEPT ![i] = Len(pages) + 1]
    /\ pc' = [pc EXCEPT ![i] = "gv_goto"]
    /\ UNCHANGED << envVars, prVars, cliPc, cdp, cbVars, ffmpegAvailable, browser, browsers, lastLaunch, sharedPage,
                    decoderPage, decoderBrowser, ret, kind, opts, br, pg, tmp,
                    capture, encoder, result, err, prePost, navStatus, stderr, upVars >>

\* captureGifWithVideo: page.goto + document.fonts.ready (no try block
\* around them)
captureGifWithVideo_goto(i) ==
    /\ pc[i] = "gv_goto"
    /\ \/ /\ pc' = [pc EXCEPT ![i] = IF opts[i].selector THEN "gv_count" ELSE "gv_wait"]
          /\ UNCHANGED err
       \/ /\ err' = [err EXCEPT ![i] = "navigation failed"]
          /\ pc' = [pc EXCEPT ![i] = "done"]
    /\ UNCHANGED << envVars, prVars, cliPc, cdp, cbVars, modVars, ret, kind, opts, handles, capture,
                    encoder, result, prePost, navStatus, stderr, upVars >>

\* captureGifWithVideo: locator.count(); zero matches closes the context
\* and throws, else scrollIntoViewIfNeeded
captureGifWithVideo_count(i) ==
    /\ pc[i] = "gv_count"
    /\ \E c \in {0, 1} :
          /\ selCount' = [selCount EXCEPT ![i] = c]
          /\ IF c = 0
             THEN /\ ctx' = [ctx EXCEPT ![i] = "closed"]
                  /\ pages' = ClosePage(pages, capPage[i])
                  /\ err' = [err EXCEPT ![i] = "Element not found"]
                  /\ pc' = [pc EXCEPT ![i] = "done"]
             ELSE /\ pc' = [pc EXCEPT ![i] = "gv_wait"]
                  /\ UNCHANGED << ctx, pages, err >>
    /\ UNCHANGED << envVars, prVars, cliPc, cdp, cbVars, ffmpegAvailable, browser, browsers, lastLaunch, sharedPage,
                    decoderPage, decoderBrowser, ret, kind, opts, br, capPage, pg,
                    tmp, frames, shots, recWaited, changes, timeouts, encoder, result,
                    prePost, navStatus, stderr, upVars >>

\* captureGifWithVideo: page.waitForTimeout(duration * 1000), the recording
captureGifWithVideo_wait(i) ==
    /\ pc[i] = "gv_wait"
    /\ recWaited' = [recWaited EXCEPT ![i] = TRUE]
    /\ timeouts' = [timeouts EXCEPT ![i] =
          Append(@, Seconds(Nullish(opts[i].duration, DefaultDuration)))]
    /\ pc' = [pc EXCEPT ![i] = "gv_close"]
    /\ UNCHANGED << envVars, prVars, cliPc, cdp, cbVars, modVars, ret, kind, opts, handles, frames,
                    shots, changes, selCount, encoder, result, err, prePost, navStatus, stderr, upVars >>

\* captureGifWithVideo: video.path(), context.close(), then the test that
\* the recording exists
captureGifWithVideo_close(i) ==
    /\ pc[i] = "gv_close"
    /\ ctx' = [ctx EXCEPT ![i] = "closed"]
    /\ pages' = ClosePage(pages, capPage[i])
    /\ \/ /\ pc' = [pc EXCEPT ![i] = "gv_ffmpeg"]
          /\ UNCHANGED err
       \/ /\ err' = [err EXCEPT ![i] = "Playwright video recording failed"]
          /\ pc' = [pc EXCEPT ![i] = "done"]
    /\ UNCHANGED << envVars, prVars, cliPc, cdp, cbVars, ffmpegAvailable, browser, browsers, lastLaunch, sharedPage,
                    decoderPage, decoderBrowser, ret, kind, opts, br, capPage, pg,
                    tmp, capture, encoder, result, prePost, navStatus, stderr, upVars >>

\* The recording runs from context.newPage() to context.close(): it holds
\* the navigation and the font wait (hundredths of a second) ahead of the
\* waitForTimeout(duration * 1000).
RecordingOverheads == {0, 100}
\* the frames `ffmpeg -vf fps=${fps}` makes of a recording of that length
ffmpegFrames(o, extra) ==
    LET d == Nullish(o.duration, DefaultDuration)
    IN CeilMul(IF d = NaN THEN NaN ELSE d + extra, Nullish(o.fps, DefaultFpsVideo))

\* captureGifWithVideo: try { ffmpeg x 2; readFileSync; return } finally
\* { rmSync(tmpDir) }
captureGifWithVideo_ffmpeg(i) ==
    /\ pc[i] = "gv_ffmpeg"
    /\ tmp' = [tmp EXCEPT ![i] = "removed"]
    /\ pc' = [pc EXCEPT ![i] = "done"]
    /\ \/ /\ \E n \in GifSizes, extra \in RecordingOverheads :
                result' = [result EXCEPT ![i] =
                    [ok |-> TRUE, gifLen |-> n,
                     gifFrames |-> ffmpegFrames(opts[i], extra),
                     frameCount |-> CeilMul(Nullish(opts[i].duration, DefaultDuration),
                                            Nullish(opts[i].fps, DefaultFpsVideo)),
                     duration |-> Nullish(opts[i].duration, DefaultDuration)]]
          /\ UNCHANGED err
       \/ /\ err' = [err EXCEPT ![i] = "ffmpeg failed"]
          /\ UNCHANGED result
    /\ UNCHANGED << envVars, prVars, cliPc, cdp, cbVars, modVars, ret, kind, opts, br, capPage, pg, ctx,
                    capture, encoder, prePost, navStatus, stderr, upVars >>

\* ------------------------------------------- browser.ts: captureScreenshot
\* getPage after the browser test: `if (!page)` asks for a new page, else
\* setViewportSize on the shared one
getPage(i) ==
    /\ pc[i] = "cs_page"
    /\ IF sharedPage = 0
       THEN /\ pc' = [pc EXCEPT ![i] = "cs_newPage"]
            /\ UNCHANGED capPage
       ELSE /\ capPage' = [capPage EXCEPT ![i] = sharedPage]
            /\ pc' = [pc EXCEPT ![i] = "cs_goto"]
    /\ UNCHANGED << envVars, prVars, cliPc, cdp, cbVars, modVars, ret, kind, opts, br, pg, ctx, tmp,
                    capture, encoder, result, err, prePost, navStatus, stderr, upVars >>

\* getPage: `page = await browser.newPage({viewport, deviceScaleFactor: 2})`
getPage_newPage(i) ==
    /\ pc[i] = "cs_newPage"
    /\ pages' = Append(pages, NewPage("shared", i, 2, opts[i].viewport.height, browser))
    /\ sharedPage' = Len(pages) + 1
    /\ capPage' = [capPage EXCEPT ![i] = Len(pages) + 1]
    /\ pc' = [pc EXCEPT ![i] = "cs_goto"]
    /\ UNCHANGED << envVars, prVars, cliPc, cdp, cbVars, ffmpegAvailable, browser, browsers, lastLaunch,
                    decoderPage, decoderBrowser, ret, kind, opts, br, pg, ctx, tmp,
                    capture, encoder, result, err, prePost, navStatus, stderr, upVars >>

\* captureScreenshot: pg.goto, addStyleTag, document.fonts.ready
captureScreenshot_goto(i) ==
    /\ pc[i] = "cs_goto"
    /\ \/ /\ pc' = [pc EXCEPT ![i] = IF opts[i].selector THEN "cs_count" ELSE "cs_shot"]
          /\ UNCHANGED err
       \/ /\ err' = [err EXCEPT ![i] = "navigation failed"]
          /\ pc' = [pc EXCEPT ![i] = "done"]
    /\ UNCHANGED << envVars, prVars, cliPc, cdp, cbVars, modVars, ret, kind, opts, handles, capture,
                    encoder, result, prePost, navStatus, stderr, upVars >>

\* captureScreenshot: locator.count(); zero matches throws, else
\* scrollIntoViewIfNeeded + waitForTimeout(200)
captureScreenshot_count(i) ==
    /\ pc[i] = "cs_count"
    /\ \E c \in {0, 1} :
          /\ selCount' = [selCount EXCEPT ![i] = c]
          /\ IF c = 0
             THEN /\ err' = [err EXCEPT ![i] = "Element not found"]
                  /\ pc' = [pc EXCEPT ![i] = "done"]
             ELSE /\ pc' = [pc EXCEPT ![i] = "cs_shot"]
                  /\ UNCHANGED err
    /\ UNCHANGED << envVars, prVars, cliPc, cdp, cbVars, modVars, ret, kind, opts, handles, frames,
                    shots, recWaited, changes, timeouts, encoder, result, prePost, navStatus, stderr, upVars >>

\* captureScreenshot: pg.screenshot() and the Buffer returned
captureScreenshot(i) ==
    /\ pc[i] = "cs_shot"
    /\ shots' = [shots EXCEPT ![i] = @ + 1]
    /\ pc' = [pc EXCEPT ![i] = "done"]
    /\ \/ /\ \E n \in GifSizes :
                result' = [result EXCEPT ![i] =
                    [ok |-> TRUE, gifLen |-> n, gifFrames |-> 1, frameCount |-> 1,
                     duration |-> 0]]
          /\ UNCHANGED err
       \/ /\ err' = [err EXCEPT ![i] = "screenshot failed"]
          /\ UNCHANGED result
    /\ UNCHANGED << envVars, prVars, cliPc, cdp, cbVars, modVars, ret, kind, opts, handles, frames,
                    recWaited, changes, selCount, timeouts, encoder, prePost, navStatus, stderr, upVars >>

\* ------------------------------------------------------------ upload.ts
\* uploadGitNative(image, filename): mkdirSync(.pre-post),
\* writeFileSync(dest, image), git add -f; the CLI calls it (--markdown)
\* inside the try block of its subcommand, where a throw of one of the
\* execSync calls rejects the upload
uploadGitNative(i) ==
    /\ pc[i] = "done"
    /\ caller = "cli" => cliPc = "capture"
    /\ result[i].ok /\ err[i] = ""
    /\ \/ /\ prePost' = prePost \cup {[kind |-> kind[i], len |-> result[i].gifLen]}
          /\ pc' = [pc EXCEPT ![i] = "staged"]
          /\ UNCHANGED err
       \/ /\ caller = "cli"
          /\ err' = [err EXCEPT ![i] = "upload failed"]
          /\ UNCHANGED << prePost, pc >>
    /\ UNCHANGED << envVars, prVars, cliPc, cdp, cbVars, modVars, ret, kind, opts, handles, capture,
                    encoder, result, navStatus, stderr, upVars >>

\* ------------------------------------------- upload.ts: uploadBeforeAfter
capVars == << cliPc, cdp, cbVars, modVars, invVars, navStatus, stderr >>
NextSide(side) == IF side = "before" THEN "stage_after" ELSE "commit"

\* /^[0-9a-f]{40}$/.test(sha), on the trimmed output of `git rev-parse HEAD`
\* without the end anchor
IsFullSha_NoEndAnchor(out) == out.len >= 40 /\ out.hex
\* /^[0-9a-f]{40}$/.test(sha)
IsFullSha(out) == out.len = 40 /\ out.hex

\* buildBlobUrl with the branch name in place of the SHA
buildBlobUrl_Branch(ownerRepo, ref, filename) ==
    [host |-> "https://github.com", ownerRepo |-> ownerRepo, tree |-> "blob",
     ref |-> [len |-> 4, hex |-> FALSE], path |-> ".pre-post/" \o filename,
     query |-> "raw=true"]
\* buildBlobUrl(ownerRepo, sha, filename):
\* https://github.com/${ownerRepo}/blob/${sha}/.pre-post/${filename}?raw=true
buildBlobUrl(ownerRepo, ref, filename) ==
    [host |-> "https://github.com", ownerRepo |-> ownerRepo, tree |-> "blob",
     ref |-> ref, path |-> ".pre-post/" \o filename, query |-> "raw=true"]

\* uploadImage's tests in the other order
uploadMethod_VercelFirst(url) ==
    IF url.hasVercel THEN "vercel" ELSE IF url.has0x0 THEN "0x0st" ELSE "put"
\* uploadImage: uploadUrl.includes('0x0.st'), then
\* uploadUrl.includes('blob.vercel'), else the generic PUT
uploadMethod(url) ==
    IF url.has0x0 THEN "0x0st" ELSE IF url.hasVercel THEN "vercel" ELSE "put"

\* the fetch(...) call each method issues before its first await
fetchCall(side, url) ==
    IF uploadMethod(url) = "0x0st"
    THEN [side |-> side, verb |-> "POST", to |-> url.name, file |-> ""]
    ELSE [side |-> side, verb |-> "PUT", to |-> url.name, file |-> side \o ".png"]

\* uploadImage(image, filename, uploadUrl = DEFAULT_UPLOAD_URL) up to the
\* await of its fetch
startUpload(side, url) ==
    LET u == IF url = NoUrl THEN DefaultUploadUrl ELSE url
    IN [st |-> "fetching", method |-> uploadMethod(u), resp |-> NoResp,
        out |-> NoOut, error |-> ""]

\* String.prototype.trim and startsWith('http') on a response body
trim(body) == [body EXCEPT !.ws = FALSE]
startsWithHttp(body) == ~body.ws /\ body.text = "http-url"

\* uploadBeforeAfter(before, after, uploadUrl?): `if (uploadUrl)` calls
\* uploadImage for both images (each runs up to its fetch) and awaits
\* Promise.all; else the git-native path begins
uploadBeforeAfter ==
    /\ caller = "upload"
    /\ ub = "idle"
    /\ \E u \in UploadUrls \cup {NoUrl} :
          /\ uploadUrl' = u
          /\ IF u # NoUrl
             THEN /\ ub' = "http"
                  /\ http' = [side \in Sides |-> startUpload(side, u)]
                  /\ fetches' = << fetchCall("before", u), fetchCall("after", u) >>
             ELSE /\ ub' = "stage_before"
                  /\ UNCHANGED << http, fetches >>
    /\ UNCHANGED << envVars, prVars, capVars, prePost, visibility, git, sha, native, urls,
                    ubErr, settled >>

\* a direct call uploadImage(image, filename, uploadUrl?)
uploadImage ==
    /\ caller = "upload"
    /\ ub = "idle"
    /\ \E u \in UploadUrls \cup {NoUrl} :
          LET url == IF u = NoUrl THEN DefaultUploadUrl ELSE u
          IN /\ uploadUrl' = u
             /\ http' = [http EXCEPT !["before"] = startUpload("before", u)]
             /\ fetches' = << fetchCall("before", url) >>
    /\ ub' = "image"
    /\ UNCHANGED << envVars, prVars, capVars, prePost, visibility, git, sha, native, urls,
                    ubErr, settled >>

\* one uploadImage call settles
Settle(side, r, okp, o, e) ==
    /\ http' = [http EXCEPT ![side] =
                  [@ EXCEPT !.st = IF okp THEN "ok" ELSE "failed",
                            !.resp = r, !.out = o, !.error = e]]
    /\ settled' = Append(settled, side)
    /\ UNCHANGED << envVars, prVars, capVars, prePost, ub, uploadUrl, visibility, git, sha,
                    native, urls, ubErr, fetches >>

\* upload0x0st without the trim of the response text
upload0x0st_NoTrim(side) ==
    /\ http[side].st = "fetching"
    /\ http[side].method = "0x0st"
    /\ \E body \in Bodies(side) :
          LET text == body
          IN IF startsWithHttp(text)
             THEN Settle(side, body, TRUE, text, "")
             ELSE Settle(side, body, FALSE, NoOut, "Upload failed: " \o text.text)

\* upload0x0st: (await response.text()).trim(); a text that does not start
\* with 'http' throws
upload0x0st(side) ==
    /\ http[side].st = "fetching"
    /\ http[side].method = "0x0st"
    /\ \E body \in Bodies(side) :
          LET text == trim(body)
          IN IF startsWithHttp(text)
             THEN Settle(side, body, TRUE, text, "")
             ELSE Settle(side, body, FALSE, NoOut, "Upload failed: " \o text.text)

\* uploadVercelBlob: `if (!response.ok) throw`; else (await response.json()).url
uploadVercelBlob(side) ==
    /\ http[side].st = "fetching"
    /\ http[side].method = "vercel"
    /\ \E r \in Responses :
          IF ~r.ok
          THEN Settle(side, r, FALSE, NoOut, "Upload failed: statusText")
          ELSE IF r.jsonUrl # "invalid"
          THEN Settle(side, r, TRUE,
                      [ws |-> FALSE, text |-> r.jsonUrl, id |-> side], "")
          ELSE Settle(side, r, FALSE, NoOut, "SyntaxError")

\* uploadGenericPut with the Location header tried before the JSON body
uploadGenericPut_LocationFirst(side) ==
    /\ http[side].st = "fetching"
    /\ http[side].method = "put"
    /\ \E r \in Responses :
          IF ~r.ok
          THEN Settle(side, r, FALSE, NoOut, "Upload failed: statusText")
          ELSE IF r.location
          THEN Settle(side, r, TRUE,
                      [ws |-> FALSE, text |-> "location", id |-> side], "")
          ELSE IF r.isJson /\ r.jsonUrl = "invalid"
          THEN Settle(side, r, FALSE, NoOut, "SyntaxError")
          ELSE IF r.isJson /\ r.jsonUrl = "json-url"
          THEN Settle(side, r, TRUE,
                      [ws |-> FALSE, text |-> "json-url", id |-> side], "")
          ELSE Settle(side, r, TRUE,
                      [ws |-> FALSE, text |-> "constructed", id |-> side], "")

\* uploadGenericPut: `if (!response.ok) throw`; a JSON body's non-empty url,
\* else the location header, else `${url}/${filename}`
uploadGenericPut(side) ==
    /\ http[side].st = "fetching"
    /\ http[side].method = "put"
    /\ \E r \in Responses :
          IF ~r.ok
          THEN Settle(side, r, FALSE, NoOut, "Upload failed: statusText")
          ELSE IF r.isJson /\ r.jsonUrl = "invalid"
          THEN Settle(side, r, FALSE, NoOut, "SyntaxError")
          ELSE IF r.isJson /\ r.jsonUrl = "json-url"
          THEN Settle(side, r, TRUE,
                      [ws |-> FALSE, text |-> "json-url", id |-> side], "")
          ELSE IF r.location
          THEN Settle(side, r, TRUE,
                      [ws |-> FALSE, text |-> "location", id |-> side], "")
          ELSE Settle(side, r, TRUE,
                      [ws |-> FALSE, text |-> "constructed", id |-> side], "")

\* Promise.all where the results are taken in the order of completion
uploadBeforeAfter_all_CompletionOrder ==
    /\ ub = "http"
    /\ \/ /\ \E side \in Sides : http[side].st = "failed"
          /\ ub' = "threw"
          /\ ubErr' = "Upload failed"
          /\ UNCHANGED urls
       \/ /\ \A side \in Sides : http[side].st = "ok"
          /\ urls' = { [side |-> "before", via |-> "http", url |-> http[settled[1]].out],
                       [side |-> "after", via |-> "http", url |-> http[settled[2]].out] }
          /\ ub' = "returned"
          /\ UNCHANGED ubErr
    /\ UNCHANGED << envVars, prVars, capVars, prePost, uploadUrl, visibility, git, sha,
                    native, http, fetches, settled >>

\* uploadBeforeAfter: `await Promise.all([...])` settles: it rejects as soon
\* as one upload has failed and resolves, with the results in the order of
\* the array, when both have succeeded
uploadBeforeAfter_all ==
    /\ ub = "http"
    /\ \/ /\ \E side \in Sides : http[side].st = "failed"
          /\ ub' = "threw"
          /\ ubErr' = "Upload failed"
          /\ UNCHANGED urls
       \/ /\ \A side \in Sides : http[side].st = "ok"
          /\ urls' = { [side |-> side, via |-> "http", url |-> http[side].out]
                       : side \in Sides }
          /\ ub' = "returned"
          /\ UNCHANGED ubErr
    /\ UNCHANGED << envVars, prVars, capVars, prePost, uploadUrl, visibility, git, sha,
                    native, http, fetches, settled >>

\* uploadBeforeAfter: uploadGitNative(image, filename) for one side.
\* `git rev-parse --show-toplevel` or resolveOwnerRepo() throws before
\* anything is written; writeFileSync writes the file; `git add -f` stages
\* it or throws; the return value is {filename, ownerRepo}
uploadBeforeAfter_uploadGitNative(side) ==
    /\ ub = "stage_" \o side
    /\ \/ /\ prePost' = prePost \cup {[kind |-> side, len |-> 1024]}
          /\ git' = Append(git, "add " \o side)
          /\ native' = [native EXCEPT ![side] =
                           [filename |-> side \o ".png", ownerRepo |-> "owner/repo"]]
          /\ ub' = NextSide(side)
          /\ UNCHANGED ubErr
       \/ /\ prePost' = prePost \cup {[kind |-> side, len |-> 1024]}
          /\ ub' = "threw"
          /\ ubErr' = "git add failed"
          /\ UNCHANGED << git, native >>
       \/ /\ ub' = "threw"
          /\ ubErr' = "Cannot parse owner/repo"
          /\ UNCHANGED << prePost, git, native >>
    /\ UNCHANGED << envVars, prVars, capVars, uploadUrl, visibility, sha, urls, http,
                    fetches, settled >>

\* commitAndPushScreenshots without the push
commitAndPushScreenshots_commit_NoPush ==
    /\ ub = "commit"
    /\ \/ /\ git' = Append(git, "commit")
          /\ ub' = "revparse"
          /\ UNCHANGED ubErr
       \/ /\ ub' = "threw"
          /\ ubErr' = "git commit failed"
          /\ UNCHANGED git
    /\ UNCHANGED << envVars, prVars, capVars, prePost, uploadUrl, visibility, sha, native,
                    urls, http, fetches, settled >>

\* commitAndPushScreenshots: execSync('git commit -m ...')
commitAndPushScreenshots_commit ==
    /\ ub = "commit"
    /\ \/ /\ git' = Append(git, "commit")
          /\ ub' = "push"
          /\ UNCHANGED ubErr
       \/ /\ ub' = "threw"
          /\ ubErr' = "git commit failed"
          /\ UNCHANGED git
    /\ UNCHANGED << envVars, prVars, capVars, prePost, uploadUrl, visibility, sha, native,
                    urls, http, fetches, settled >>

\* commitAndPushScreenshots: execSync('git push origin HEAD')
commitAndPushScreenshots_push ==
    /\ ub = "push"
    /\ \/ /\ git' = Append(git, "push")
          /\ ub' = "revparse"
          /\ UNCHANGED ubErr
       \/ /\ ub' = "threw"
          /\ ubErr' = "git push failed"
          /\ UNCHANGED git
    /\ UNCHANGED << envVars, prVars, capVars, prePost, uploadUrl, visibility, sha, native,
                    urls, http, fetches, settled >>

\* commitAndPushScreenshots: execSync('git rev-parse HEAD').trim() and the
\* test of it against /^[0-9a-f]{40}$/
commitAndPushScreenshots ==
    /\ ub = "revparse"
    /\ \/ /\ git' = Append(git, "rev-parse")
          /\ \E out \in RevParseOutputs :
                /\ sha' = out
                /\ IF IsFullSha(out)
                   THEN ub' = "urls" /\ UNCHANGED ubErr
                   ELSE ub' = "threw"
                        /\ ubErr' = "Failed to get commit SHA after push"
       \/ /\ ub' = "threw"
          /\ ubErr' = "git rev-parse failed"
          /\ UNCHANGED << git, sha >>
    /\ UNCHANGED << envVars, prVars, capVars, prePost, uploadUrl, visibility, native, urls,
                    http, fetches, settled >>

\* uploadBeforeAfter: buildBlobUrl for both files and the return
uploadBeforeAfter_return ==
    /\ ub = "urls"
    /\ urls' = { [side |-> side, via |-> "blob",
                  url |-> buildBlobUrl(native[side].ownerRepo, sha,
                                       native[side].filename)] : side \in Sides }
    /\ ub' = "returned"
    /\ UNCHANGED << envVars, prVars, capVars, prePost, uploadUrl, visibility, git, sha,
                    native, ubErr, http, fetches, settled >>

\* ------------------------------------------------------------- the system
\* ------------------------------------ skill/scripts/upload-and-copy.sh
\* $( ... ): command substitution drops every trailing newline
RECURSIVE CommandSubstitution(_)
CommandSubstitution(out) ==
    IF out # << >> /\ out[Len(out)] = NL
    THEN CommandSubstitution(SubSeq(out, 1, Len(out) - 1))
    ELSE out

\* `marker in body` / body.split(marker, 1): the place of the first
\* occurrence of the marker text (0 = none)
find(body) ==
    IF \E k \in DOMAIN body : body[k] = marker
    THEN CHOOSE k \in DOMAIN body :
            /\ body[k] = marker
            /\ \A j \in 1..(k - 1) : body[j] # marker
    ELSE 0

\* a body in which every new section goes to the end
NEW_BODY_python_Append(body, section) ==
    LET m == find(body)
    IN IF m > 0
       THEN body \o << NL, NL, Rule, NL, NL, section >>
       ELSE body \o << NL, NL, marker, NL, NL, section >>

\* the python3 -c program that builds NEW_BODY, with print's newline
NEW_BODY_python(body, section) ==
    LET m == find(body)
    IN IF m > 0
       THEN SubSeq(body, 1, m - 1) \o << marker >> \o << NL, NL >>
               \o << section >> \o << NL, NL, Rule >>
               \o SubSeq(body, m + 1, Len(body)) \o << NL >>
       ELSE body \o << NL, NL >> \o << marker >> \o << NL, NL >>
               \o << section >> \o << NL >>

\* a --markdown run after the uploads: build SECTION, then leave with the
\* clipboard copy alone when gh is missing or not authenticated
upload_and_copy ==
    /\ caller = "pr" /\ sc = "idle"
    /\ runs < MaxRuns
    /\ runs' = runs + 1
    /\ SECTION' = Section(runs + 1)
    /\ \E gh_is_authenticated \in BOOLEAN :
          sc' = IF gh_is_authenticated THEN "view" ELSE "idle"
    /\ UNCHANGED << envVars, prBody, prExists, PR_BODY, NEW_BODY, cliPc, cdp, cbVars,
                    modVars, invVars, prePost, navStatus, stderr, upVars >>

\* PR_JSON=$(gh pr view ...): without a pull request the run ends;
\* PR_BODY=$(... print(json.load(sys.stdin).get('body','')))
gh_pr_view ==
    /\ sc = "view"
    /\ IF prExists
       THEN /\ PR_BODY' = CommandSubstitution(prBody \o << NL >>)
            /\ sc' = "python"
       ELSE /\ sc' = "idle"
            /\ UNCHANGED PR_BODY
    /\ UNCHANGED << envVars, prBody, prExists, runs, SECTION, NEW_BODY, cliPc, cdp,
                    cbVars, modVars, invVars, prePost, navStatus, stderr, upVars >>

\* NEW_BODY=$(python3 -c "..." "$PR_BODY" "$SECTION")
upload_and_copy_NEW_BODY ==
    /\ sc = "python"
    /\ NEW_BODY' = CommandSubstitution(NEW_BODY_python(PR_BODY, SECTION))
    /\ sc' = "edit"
    /\ UNCHANGED << envVars, prBody, prExists, runs, SECTION, PR_BODY, cliPc, cdp,
                    cbVars, modVars, invVars, prePost, navStatus, stderr, upVars >>

\* gh pr edit "$PR_NUMBER" --body "$NEW_BODY"; under `set -e` a failing gh
\* ends the run with the body as it was
gh_pr_edit ==
    /\ sc = "edit"
    /\ \/ prBody' = NEW_BODY
       \/ UNCHANGED prBody
    /\ sc' = "idle"
    /\ UNCHANGED << envVars, prExists, runs, SECTION, PR_BODY, NEW_BODY, cliPc, cdp,
                    cbVars, modVars, invVars, prePost, navStatus, stderr, upVars >>

Next ==
    \/ upload_and_copy
    \/ gh_pr_view
    \/ upload_and_copy_NEW_BODY
    \/ gh_pr_edit
    \/ main
    \/ exit
    \/ closeDecoderPage
    \/ closeDecoderPage_null
    \/ closeBrowser
    \/ closeBrowser_page
    \/ closeBrowser_browser
    \/ uploadBeforeAfter
    \/ uploadImage
    \/ commitAndPushScreenshots_commit
    \/ commitAndPushScreenshots_push
    \/ commitAndPushScreenshots
    \/ uploadBeforeAfter_return
    \/ uploadBeforeAfter_all
    \/ \E side \in Sides :
          \/ uploadBeforeAfter_uploadGitNative(side)
          \/ upload0x0st(side)
          \/ uploadVercelBlob(side)
          \/ uploadGenericPut(side)
    \/ \E i \in Inv :
          \/ call_captureVideo(i)
          \/ call_captureScreenshot(i)
          \/ getBrowser(i)
          \/ launchBrowser(i)
          \/ captureVideo(i)
          \/ captureVideo_newPage(i)
          \/ captureGif_goto(i)
          \/ captureGif_count(i)
          \/ captureGif_scroll(i)
          \/ captureGif_screenshot(i)
          \/ captureGif_wait(i)
          \/ encodeGif(i)
          \/ getDecoderPage(i)
          \/ getDecoderPage_newPage(i)
          \/ getDecoderPage_return(i)
          \/ decodePngToRgba(i)
          \/ captureVideo_finally(i)
          \/ captureGifWithVideo(i)
          \/ captureGifWithVideo_goto(i)
          \/ captureGifWithVideo_count(i)
          \/ captureGifWithVideo_wait(i)
          \/ captureGifWithVideo_close(i)
          \/ captureGifWithVideo_ffmpeg(i)
          \/ getPage(i)
          \/ getPage_newPage(i)
          \/ captureScreenshot_goto(i)
          \/ captureScreenshot_count(i)
          \/ captureScreenshot(i)
          \/ uploadGitNative(i)

Spec == Init /\ [][Next]_vars

\* ----------------------------------------------------------------- claims
AllIdentical(fs) == \A a, b \in DOMAIN fs : fs[a] = fs[b]
RECURSIVE SumDelays(_)
SumDelays(ws) == IF ws = << >> THEN 0 ELSE ws[1].delay + SumDelays(Tail(ws))
InFlight(i) == pc[i] \notin {"idle", "done", "staged"}
Returned(i) == pc[i] \in {"done", "staged"}

\* C1: when every still is byte-identical to the one before it and
\* ceil(duration x fps) > 4, the capture loop of captureGif never holds more
\* than 4 frames and is left with exactly 4.
C1_SettleStopsAtFour ==
    \A i \in Inv :
        (kind[i] = "video" /\ AllIdentical(frames[i])
            /\ Gt(totalFrames(opts[i]), 4))
        => /\ Len(frames[i]) <= 4
           /\ (pc[i] = "eg_loop" => Len(frames[i]) = 4)

\* C2: a capture that reached the frame loop and left it without an error
\* holds at least 1 and at most ceil(duration x fps) frames.
C2_FrameCountInRange ==
    \A i \in Inv :
        pc[i] = "eg_loop"
        => /\ Len(frames[i]) >= 1
           /\ Le(Len(frames[i]), totalFrames(opts[i]))

\* C3: once the configured selector has matched zero elements, the capture
\* has failed with 'Element not found', returns nothing, and no still was or
\* will be captured: no page.screenshot call and no recording wait, on the
\* captureGif, captureGifWithVideo and captureScreenshot paths alike.
C3_NoStillAfterSelectorMiss ==
    \A i \in Inv :
        selCount[i] = 0
        => /\ err[i] = "Element not found"
           /\ pc[i] \in {"cv_finally", "done"}
           /\ shots[i] = 0
           /\ frames[i] = << >>
           /\ ~recWaited[i]
           /\ ~result[i].ok

\* C3 witness: a selector miss on the captureGif path, after captureVideo
\* has settled.
C3_Witness ==
    \E i \in Inv : /\ kind[i] = "video" /\ selCount[i] = 0 /\ pc[i] = "done"
                   /\ ctx[i] = "none" /\ capPage[i] # 0

\* C4: a finished GIF longer than 10 x 1024 x 1024 bytes is never returned
\* by the capture and never written to .pre-post/ by uploadGitNative.
C4_OversizeRejected ==
    /\ \A i \in Inv :
          (kind[i] = "video" /\ result[i].ok) => result[i].gifLen <= MaxFileSize
    /\ \A f \in prePost : f.kind = "video" => f.len <= MaxFileSize

\* C5: when captureVideo has returned or thrown, the capture page it opened
\* and the decoder page it decoded on are closed.
C5_PagesReleased ==
    \A i \in Inv :
        (kind[i] = "video" /\ Returned(i))
        => /\ capPage[i] # 0 => ~IsOpen(capPage[i])
           /\ pg[i] # 0 => ~IsOpen(pg[i])

\* C6: two captureVideo invocations in flight together share nothing: the
\* browser handle, the capture page and the decoder page an invocation holds
\* were each created by that invocation.
C6_NoSharedResources ==
    \A i, j \in Inv :
        (i # j /\ kind[i] = "video" /\ kind[j] = "video"
            /\ InFlight(i) /\ InFlight(j))
        => /\ br[i] # 0 => browsers[br[i]].by = i
           /\ capPage[i] # 0 => pages[capPage[i]].by = i
           /\ pg[i] # 0 => pages[pg[i]].by = i

\* C7: no two consecutive frames written to the GIF have identical index
\* buffers.
C7_RunsCoalesced ==
    \A i \in Inv : \A k \in 1..(Len(written[i]) - 1) :
        written[i][k].index # written[i][k + 1].index

\* C8: when the renderer returned the same still on every call, the
\* finished clip has exactly 1 frame whose delay is the requested duration
\* (duration x 100 centiseconds), for every duration in 0.1..10 s and fps
\* in 1..10.
C8_StaticPageOneFrame ==
    \A i \in Inv :
        (finished[i] /\ frames[i] # << >> /\ AllIdentical(frames[i])
            /\ Nullish(opts[i].duration, DefaultDuration) \in 10..1000
            /\ Nullish(opts[i].fps, DefaultFps) \in 1..10)
        => /\ Len(written[i]) = 1
           /\ written[i][1].delay = Nullish(opts[i].duration, DefaultDuration)

\* C9: the delays of the frames written to a finished GIF sum to
\* round(1000 / fps / 10) x (number of captured frames).
C9_DelaySum ==
    \A i \in Inv :
        (finished[i] /\ frames[i] # << >>)
        => LET fps == Nullish(opts[i].fps, DefaultFps)
               base == (200 + fps) \div (2 * fps)
           IN SumDelays(written[i]) = base * Len(frames[i])

\* C9 witness: a finished GIF of at least two captured frames.
C9_Witness ==
    \E i \in Inv : finished[i] /\ Len(frames[i]) >= 2 /\ Len(written[i]) >= 2

\* C10: every frame written to the GIF has a delay of at least 1
\* centisecond.
C10_DelayAtLeastOne ==
    \A i \in Inv : \A k \in DOMAIN written[i] : written[i][k].delay >= 1

\* the pixels of a whole frame sequence, one frame after the other
RECURSIVE AllPixels(_)
AllPixels(fs) == IF fs = << >> THEN << >> ELSE Pixels(Head(fs)) \o AllPixels(Tail(fs))

\* C11: every frame of a clip is written with one and the same palette,
\* the palette built once from the pixels of the whole frame sequence.
C11_GlobalPalette ==
    \A i \in Inv : \A k \in DOMAIN written[i] :
        /\ written[i][k].palette = written[i][1].palette
        /\ written[i][k].palette = quantize(AllPixels(frames[i]), MaxColors)

ClampDuration(d) == IF d > 1000 THEN 1000 ELSE d
ClampFps(f) == IF f > 10 THEN 10 ELSE IF f < 1 THEN 1 ELSE f
IsNumber(x) == x # NaN /\ x # Undefined

\* C13: a requested duration above 10 s, fps above 10 or fps below 1 is
\* clamped (to 10 s, 10 and 1) and the capture proceeds with the clamped
\* values: the command line does not refuse such a request, and totalFrames
\* is ceil(clamped duration x clamped fps).
C13_Clamped ==
    /\ (caller = "cli" /\ cliPc # "main" /\ flags.video /\ ~flags.full
          /\ Nullish(flags.duration, CliDefaultDuration) > 0
          /\ Nullish(flags.fps, CliDefaultFps) # NaN)
       => (cliPc # "exit1" /\ kind[1] = "video")
    /\ \A i \in Inv :
          (kind[i] = "video" /\ IsNumber(opts[i].duration) /\ IsNumber(opts[i].fps)
              /\ opts[i].duration > 0)
          => totalFrames(opts[i]) = CeilMul(ClampDuration(opts[i].duration),
                                            ClampFps(opts[i].fps))

\* C14: a duration or fps that is not a finite number (NaN from an
\* unparsable flag) is rejected before any capture is attempted: a GIF
\* capture given one opens no page, captures no frame and returns nothing.
C14_NonFiniteRejected ==
    \A i \in Inv :
        (kind[i] = "video" /\ (opts[i].duration = NaN \/ opts[i].fps = NaN))
        => /\ capPage[i] = 0
           /\ shots[i] = 0
           /\ ~recWaited[i]
           /\ ~result[i].ok

\* C15: for a viewport at most 430 wide and more than 667 high the capture
\* page of a GIF and every frame written to the GIF are 667 high; for any
\* other viewport the page keeps the configured height.
C15_MobileOverride ==
    \A i \in Inv :
        kind[i] = "video" =>
            LET v == opts[i].viewport
                isMobile == v.width <= 430 /\ v.height > 667
            IN /\ capPage[i] # 0 =>
                    pages[capPage[i]].height = IF isMobile THEN 667 ELSE v.height
               /\ isMobile => \A k \in DOMAIN written[i] : written[i][k].height = 667

\* C16: every page that captures frames for a GIF was created with
\* deviceScaleFactor 1, on the screenshot path and on the FFmpeg path.
C16_PixelDensityOne ==
    \A p \in DOMAIN pages : pages[p].kind = "capture" => pages[p].dsf = 1

\* C17: when decoding a frame has failed, the capture fails as a whole:
\* the encoder is never finished, no VideoResult is returned, and the
\* invocation is on its way out with the error.
C17_DecodeFailureFatal ==
    \A i \in Inv :
        err[i] = "decode failed"
        => /\ ~finished[i]
           /\ ~result[i].ok
           /\ pc[i] \in {"cv_finally", "done"}

\* C17 witness: decoding failed after at least one frame had been decoded
\* and written, and captureVideo has settled.
C17_Witness ==
    \E i \in Inv : /\ err[i] = "decode failed" /\ Len(written[i]) >= 1
                   /\ Len(frames[i]) > Len(written[i]) /\ pc[i] = "done"

\* C18: a navigation that answers with a 4xx/5xx status does not abort the
\* capture, and a warning is logged for it.
C18_NavigationWarning ==
    \A i \in Inv :
        navStatus[i] >= 400
        => /\ err[i] # "navigation failed"
           /\ \E m \in stderr : m.level = "warn"

\* C19: with a renderer that returns 5 distinct stills, fps 5 and duration
\* 1 s, the finished clip has exactly 5 frames, each written with loop
\* count 0, and the delays sum to 100 centiseconds.
C19_FiveDistinctStills ==
    \A i \in Inv :
        (caller = "e2e" /\ finished[i])
        => /\ Len(written[i]) = 5
           /\ result[i].frameCount = 5
           /\ \A k \in DOMAIN written[i] : written[i][k].repeat = 0
           /\ SumDelays(written[i]) = 100

\* C19 witness: the scenario has run to a finished clip of 5 pairwise
\* different stills.
C19_Witness ==
    /\ caller = "e2e" /\ finished[1] /\ result[1].ok /\ pc[1] = "done"
    /\ opts[1].duration = 100 /\ opts[1].fps = 5
    /\ Len(frames[1]) = 5
    /\ \A a, b \in DOMAIN frames[1] : a # b => frames[1][a] # frames[1][b]

\* C20: git-native upload: the commands run in the order add before, add
\* after, one commit, push, rev-parse; a URL exists only after the push and
\* a valid SHA; a failed step leaves no URL.
C20_GitNativeOrder ==
    LET order == << "add before", "add after", "commit", "push", "rev-parse" >>
    IN /\ Len(git) <= Len(order)
       /\ \A k \in DOMAIN git : git[k] = order[k]
       /\ (urls # {} /\ uploadUrl = NoUrl) => (git = order /\ IsFullSha(sha))
       /\ ub = "threw" => urls = {}

\* C20 witness: uploadBeforeAfter without an upload URL has returned the
\* two blob URLs.
C20_Witness ==
    /\ ub = "returned" /\ uploadUrl = NoUrl
    /\ { u.side : u \in urls } = Sides
    /\ \A u \in urls : u.via = "blob" /\ IsFullSha(u.url.ref)

UrlOf(side) == (CHOOSE u \in urls : u.side = side).url
Settled(side) == http[side].st \in {"ok", "failed"}

C22_InvalidShaThrows ==
    (Len(git) = 5 /\ ~(sha.len = 40 /\ sha.hex))
    => /\ ub = "threw"
       /\ ubErr = "Failed to get commit SHA after push"
       /\ urls = {}

\* C22 witness: rev-parse printed 41 hexadecimal characters.
C22_Witness ==
    Len(git) = 5 /\ sha.len = 41 /\ sha.hex /\ ub = "threw"

\* C23: uploadImage issues exactly one fetch per call: a POST to the URL
\* when it contains '0x0.st' (or no URL was given), else a PUT to
\* {url}/{filename}, in Vercel-Blob mode when the URL contains 'blob.vercel'
\* and in generic mode otherwise.
C23_OneMethodPerUrl ==
    \A side \in Sides :
        http[side].st # "none"
        => LET u == IF uploadUrl = NoUrl THEN DefaultUploadUrl ELSE uploadUrl
               mine == { k \in DOMAIN fetches : fetches[k].side = side }
           IN /\ Cardinality(mine) = 1
              /\ \A k \in mine :
                    /\ fetches[k].to = u.name
                    /\ IF u.has0x0
                       THEN /\ http[side].method = "0x0st"
                            /\ fetches[k].verb = "POST" /\ fetches[k].file = ""
                       ELSE /\ http[side].method =
                                  IF u.hasVercel THEN "vercel" ELSE "put"
                            /\ fetches[k].verb = "PUT"
                            /\ fetches[k].file = side \o ".png"

\* C23 witness: a direct uploadImage call with a URL that contains both
\* '0x0.st' and 'blob.vercel' has settled.
C23_Witness ==
    /\ ub = "image" /\ uploadUrl.has0x0 /\ uploadUrl.hasVercel
    /\ Settled("before")

\* C24: a failed upload never yields a URL.  0x0.st: a body that, trimmed,
\* starts with 'http' is returned trimmed, any other body rejects with
\* 'Upload failed: <body>'.  Both PUT methods: a response with ok = false
\* rejects with 'Upload failed: <statusText>'.
C24_FailedUploadNoUrl ==
    \A side \in Sides :
        Settled(side)
        => LET h == http[side]
           IN /\ h.st = "failed" => h.out = NoOut
              /\ h.method = "0x0st" =>
                    IF h.resp.text = "http-url"
                    THEN h.st = "ok" /\ h.out = [ws |-> FALSE, text |-> "http-url",
                                                  id |-> side]
                    ELSE h.st = "failed" /\ h.error = "Upload failed: error"
              /\ (h.method \in {"vercel", "put"} /\ ~h.resp.ok) =>
                    h.st = "failed" /\ h.error = "Upload failed: statusText"

\* C24 witness: 0x0.st answered with a URL surrounded by whitespace and the
\* upload succeeded.
C24_Witness ==
    \E side \in Sides :
        /\ http[side].method = "0x0st" /\ http[side].st = "ok"
        /\ http[side].resp.ws

\* C25: a successful generic PUT returns the url field of a JSON body when
\* the content type is application/json and the field is non-empty, else
\* the Location header when present, else {uploadUrl}/{filename}.
C25_GenericPutPrecedence ==
    \A side \in Sides :
        (http[side].method = "put" /\ http[side].st = "ok")
        => LET r == http[side].resp
           IN http[side].out.text =
                 IF r.isJson /\ r.jsonUrl = "json-url" THEN "json-url"
                 ELSE IF r.location THEN "location" ELSE "constructed"

\* C25 witness: a JSON body with a url and a Location header both present.
C25_Witness ==
    \E side \in Sides :
        /\ http[side].method = "put" /\ http[side].st = "ok"
        /\ http[side].resp.isJson /\ http[side].resp.jsonUrl = "json-url"
        /\ http[side].resp.location

\* C26: with an upload URL, uploadBeforeAfter issues both fetches, one per
\* image and each to the given URL, before either has finished; it resolves
\* with each URL matched to its image whatever the completion order, rejects
\* if either upload fails, and runs no git command.
C26_ParallelUploads ==
    (ub \in {"http", "returned", "threw"} /\ uploadUrl # NoUrl)
    => /\ git = << >>
       /\ Len(fetches) = 2
       /\ fetches[1].side = "before" /\ fetches[2].side = "after"
       /\ \A k \in DOMAIN fetches : fetches[k].to = uploadUrl.name
       /\ ub = "returned" =>
             /\ \A side \in Sides : http[side].st = "ok"
             /\ \A side \in Sides : UrlOf(side) = http[side].out
       /\ ub = "threw" =>
             /\ urls = {}
             /\ \E side \in Sides : http[side].st = "failed"
       /\ (\E side \in Sides : Settled(side) /\ http[side].st = "failed")
             => ub # "returned"

\* C26 witness: the after upload finished first and uploadBeforeAfter
\* returned both URLs.
C26_Witness ==
    /\ ub = "returned" /\ uploadUrl # NoUrl
    /\ settled = << "after", "before" >>

\* C27: without an upload URL, a private or internal repository gets gist
\* raw URLs; git-native URLs are returned only for a public or unknown
\* visibility.
C27_GistForPrivate ==
    (ub = "returned" /\ uploadUrl = NoUrl)
    => /\ visibility \in {"private", "internal"} =>
             \A u \in urls : u.via = "gist"
       /\ visibility \in {"public", "unknown"} => \A u \in urls : u.via = "blob"

VideoFullMessage == "--full (fullPage) is not supported with --video"
NothingCaptured ==
    /\ browsers = << >> /\ pages = << >>
    /\ kind[1] = "none" /\ pc[1] = "idle"

\* C28 as stated: with --video, --full is a hard error in every subcommand:
\* the message is printed and the process exits with status 1 before any
\* browser is launched or any page is captured.
C28_VideoFullHardError ==
    (caller = "cli" /\ cliPc # "main" /\ flags.video /\ flags.full)
    => /\ cliPc = "exit1"
       /\ stderr = {[level |-> "error", text |-> VideoFullMessage]}
       /\ NothingCaptured

\* C28 amended: the same, unless --help is given without a subcommand (the
\* usage is then printed and the process exits with status 0, still without
\* a browser or a capture).
C28_VideoFullHardError_UnlessHelp ==
    (caller = "cli" /\ cliPc # "main" /\ flags.video /\ flags.full)
    => /\ NothingCaptured
       /\ IF flags.help /\ flags.subcommand = "default"
          THEN cliPc = "exit0" /\ stderr = {}
          ELSE /\ cliPc = "exit1"
               /\ stderr = {[level |-> "error", text |-> VideoFullMessage]}

\* C28 witness: `detect --video --full` has exited with status 1.
C28_Witness ==
    /\ caller = "cli" /\ flags.video /\ flags.full
    /\ flags.subcommand = "detect" /\ ~flags.help
    /\ cliPc = "exit1"

ParsedDuration == Nullish(flags.duration, CliDefaultDuration)
ParsedFps == Nullish(flags.fps, CliDefaultFps)

\* C29: with --video a capture starts only when the parsed duration is
\* within 0.1 .. 10 s and the parsed fps within 1 .. 10, and any other value
\* exits with status 1 before a capture; without --video, --duration and
\* --fps never cause an error.
C29_VideoFlagRanges ==
    (caller = "cli" /\ cliPc # "main" /\ ~flags.full /\ ~flags.help
       /\ flags.subcommand = "default" /\ flags.args)
    => /\ (flags.video /\ kind[1] # "none") =>
             /\ ParsedDuration \in 10..CliMaxDuration
             /\ ParsedFps \in 1..CliMaxFps
       /\ (flags.video /\ ~(ParsedDuration \in 10..CliMaxDuration
                            /\ ParsedFps \in 1..CliMaxFps)) =>
             cliPc = "exit1" /\ NothingCaptured
       /\ ~flags.video => kind[1] = "screenshot" /\ stderr = {}

\* C30: at most one browser launched through getBrowser / getPage is live at
\* any time: it is the one the module variable refers to, and every caller
\* that was handed a browser was handed that one.
C30_SingletonBrowser ==
    LET live == { b \in DOMAIN browsers : browsers[b].open }
    IN /\ Cardinality(live) <= 1
       /\ \A b \in live : browser = b
       /\ \A i \in Inv : br[i] # 0 => br[i] = browser

\* the positions of encodeGif and of the decode of one frame
Encoding(i) ==
    \/ pc[i] \in {"eg_loop", "dp_getDecoderPage", "dp_newPage", "dp_setContent",
                  "dp_evaluate"}
    \/ pc[i] \in {"gb_check", "gb_launch"} /\ ret[i] = "dp_getDecoderPage"

\* C32: decoding, quantization and encoding of any frame start only after
\* the capture loop has finished: while a frame is being decoded or once one
\* was written, no still remains to be captured.
C32_PostPass ==
    \A i \in Inv :
        (Encoding(i) \/ written[i] # << >>)
        => /\ ~Lt(Len(frames[i]), totalFrames(opts[i]))
           /\ pc[i] \notin {"cg_goto", "cg_count", "cg_scroll", "cg_shot", "cg_wait"}

\* C32 witness: the second frame of a capture is being decoded.
C32_Witness ==
    \E i \in Inv : pc[i] = "dp_evaluate" /\ Len(written[i]) = 1
                   /\ Len(frames[i]) >= 2

\* C33: within one capture the stills are taken one at a time and appended
\* in capture order, and the frames are decoded one at a time in that same
\* order: every step adds at most one still, at the end, and at most one
\* written frame, which is the decode of the next still.
C33_OneAtATime ==
    [][\A i \in Inv :
          /\ frames'[i] # frames[i] =>
                /\ pc[i] = "cg_shot" /\ shots'[i] = shots[i] + 1
                /\ Len(frames'[i]) = Len(frames[i]) + 1
                /\ SubSeq(frames'[i], 1, Len(frames[i])) = frames[i]
          /\ (kind[i] = "video" /\ shots'[i] # shots[i]) =>
                pc[i] = "cg_shot" /\ pc'[i] # "cg_shot"
          /\ written'[i] # written[i] =>
                /\ pc[i] = "dp_evaluate" /\ pc'[i] # "dp_evaluate"
                /\ written'[i] = Append(written[i],
                       writeFrame(opts[i], frames[i][Len(written[i]) + 1],
                                  Len(written[i])))]_vars

\* C33 witness: five different stills were captured and the third is being
\* decoded.
C33_Witness ==
    \E i \in Inv : /\ Cardinality({ frames[i][k] : k \in DOMAIN frames[i] }) = 5
                   /\ Len(written[i]) = 2 /\ pc[i] = "dp_evaluate"

\* C34: in captureGif the first still comes after the navigation, the
\* configured pre-roll delay and the selector check, in that order: when
\* the first screenshot is requested, the page was navigated, a configured
\* delay was the first timeout waited, and a given selector was found.
C34_PreambleOrder ==
    \A i \in Inv :
        (kind[i] = "video" /\ ctx[i] = "none" /\ (pc[i] = "cg_shot" \/ shots[i] > 0))
        => /\ navStatus[i] # 0
           /\ opts[i].selector => selCount[i] = 1
           /\ Nullish(opts[i].delay, 0) > 0 =>
                 (timeouts[i] # << >> /\ timeouts[i][1] = opts[i].delay)

\* C35: captureVideo has one codepath, sequential screenshots encoded with
\* gifenc: no capture ever creates a recordVideo context or a temporary
\* directory for FFmpeg, whatever is installed on the machine.
C35_SingleCodepath ==
    \A i \in Inv :
        kind[i] = "video"
        => /\ ctx[i] = "none" /\ tmp[i] = "none"
           /\ pc[i] \notin {"gv_newContext", "gv_goto", "gv_count", "gv_wait",
                            "gv_close", "gv_ffmpeg"}
           /\ result[i].ok => finished[i]

\* C38: the frameCount of a returned VideoResult is the number of frames in
\* its GIF, on the sequential-screenshot path and on the FFmpeg path.
C38_FrameCountIsGifFrames ==
    \A i \in Inv :
        (kind[i] = "video" /\ result[i].ok)
        => result[i].frameCount = result[i].gifFrames

\* C39: when captureGifWithVideo has returned or thrown, the browser context
\* it created is closed and the temporary directory it created is removed.
C39_VideoPathCleanup ==
    \A i \in Inv :
        (kind[i] = "video" /\ tmp[i] # "none" /\ pc[i] = "done")
        => ctx[i] = "closed" /\ tmp[i] = "removed"

\* C37: with PLAYWRIGHT_CHROMIUM_EXECUTABLE_PATH set, launchBrowser tries
\* exactly that path and a failure is an error, without fallback; otherwise
\* it tries System Chrome, the bundled Chromium and each cached build in
\* that order, returns the first that launches without trying a later one,
\* and throws only when every strategy has failed.
C37_LaunchFallbackChain ==
    lastLaunch # NoLaunch
    => LET e == lastLaunch.env
           t == lastLaunch.tried
           n == Len(e.ok)
       IN /\ IF e.customPath
             THEN /\ t = << 0 >>
                  /\ IF e.customOk
                     THEN lastLaunch.launched = 0 /\ lastLaunch.error = ""
                     ELSE /\ lastLaunch.launched = -1
                          /\ lastLaunch.error =
                                "Failed to launch Chromium at custom path"
             ELSE /\ t # << >>
                  /\ \A k \in DOMAIN t : t[k] = k
                  /\ \A k \in 1..(Len(t) - 1) : ~e.ok[k]
                  /\ IF \E k \in 1..n : e.ok[k]
                     THEN /\ lastLaunch.launched = t[Len(t)]
                          /\ e.ok[t[Len(t)]]
                          /\ lastLaunch.error = ""
                     ELSE /\ lastLaunch.launched = -1
                          /\ Len(t) = n
                          /\ lastLaunch.error = "No usable Chromium found"
          /\ lastLaunch.launched = -1 =>
                \E i \in Inv : err[i] = lastLaunch.error
          /\ lastLaunch.launched # -1 => browsers # << >>

\* C37 witness: System Chrome and the bundled Chromium failed, the first of
\* two cached builds launched and the second was not tried.
C37_Witness ==
    /\ ~lastLaunch.env.customPath
    /\ lastLaunch.env.ok = << FALSE, FALSE, TRUE, TRUE >>
    /\ lastLaunch.tried = << 1, 2, 3 >> /\ lastLaunch.launched = 3
    /\ browser # 0

NothingOpen ==
    /\ \A b \in DOMAIN browsers : ~browsers[b].open
    /\ \A p \in DOMAIN pages : ~pages[p].open

\* C36: when the CLI process exits after it has entered the capture
\* section (default, compare, run), closeBrowser was called and has
\* returned: after a success, a capture error and an upload error alike.
C36_CloseBrowserBeforeExit ==
    (caller = "cli" /\ cliPc \in {"exit0", "exit1"} /\ kind[1] # "none")
    => /\ cbCalls = 1 /\ cb = "idle"
       /\ browser = 0 /\ sharedPage = 0
       /\ NothingOpen

\* C36 witness: the capture succeeded, the upload failed, and the process
\* has exited with status 1 after closing the browser it had launched.
C36_Witness ==
    /\ caller = "cli" /\ cliPc = "exit1"
    /\ result[1].ok /\ err[1] = "upload failed"
    /\ browsers # << >> /\ cbCalls = 1

\* the handle an invocation is about to use is open
HandlesOpen(i) ==
    /\ pc[i] \in {"cv_newPage", "gv_newContext", "dp_newPage"} =>
          (br[i] # 0 /\ browsers[br[i]].open)
    /\ pc[i] = "cs_newPage" => (browser # 0 /\ browsers[browser].open)
    /\ pc[i] \in {"cg_goto", "cg_count", "cg_scroll", "cg_shot", "cg_wait",
                  "cs_goto", "cs_count", "cs_shot",
                  "gv_goto", "gv_count", "gv_wait"} => IsOpen(capPage[i])
    /\ pc[i] = "dp_setContent" => IsOpen(decoderPage)
    /\ pc[i] = "dp_evaluate" => IsOpen(pg[i])

\* C40: when closeBrowser returns, no page and no browser is open and the
\* module variables are null; a call made when nothing is held changes
\* nothing; and every capture made after a closeBrowser works on handles
\* that are open.
C40_CloseBrowserResets ==
    [][/\ cbCalls' # cbCalls =>
             /\ browser' = 0 /\ sharedPage' = 0
             /\ NothingOpen'
             /\ (cb = "idle" /\ browser = 0 /\ sharedPage = 0) =>
                   UNCHANGED << browsers, pages, decoderPage, invVars >>
       /\ cbCalls' >= 1 => \A i \in Inv : HandlesOpen(i)']_vars

\* the sections of a body, top to bottom
SectionsOf(body) == SelectSeq(body, LAMBDA t : t \in Sections)
\* the text in front of the header (the whole body when it has none),
\* without the newlines at its end
BeforeHeader(body) ==
    CommandSubstitution(IF find(body) > 0
                        THEN SubSeq(body, 1, find(body) - 1)
                        ELSE body)

====
